---- MODULE Spec2Model ----
(***************************************************************************)
(* A model of the traffic replay engine: the TCP sink (TCPOutput), the     *)
(* HTTP output worker pool (HTTPOutput), the emitter copy loop             *)
(* (CopyMulty), the packet-to-message reassembler (raw_socket_listener),   *)
(* the replay HTTP client (HTTPClient) and the file sink (FileOutput).     *)
(*                                                                         *)
(* Every component has its own specification (SpecTCP, SpecHTTP, SpecEmit, *)
(* SpecRaw, SpecIndex, SpecClient, SpecNames, SpecFile, SpecParser,        *)
(* SpecStart); the variables of the other components stay at their idle    *)
(* values under it.                                                        *)
(***************************************************************************)
EXTENDS Integers, Sequences, FiniteSets, Bags, TLC

VARIABLES
    \* ---- TCP sink (src/settings.go, TCPOutput)
    tcpSticky,      \* o.config.sticky
    tcpBuf,         \* o.buf: buffer index -> the channel's content, head first
    tcpWorkers,     \* the worker goroutines, a bag of [buf, pc, data]
    tcpDelivered,   \* the frames the peer has received, in arrival order
    tcpWrites,      \* number of Write calls made so far
    \* ---- HTTP output worker pool (src/output_http.go, HTTPOutput)
    hMin,           \* o.config.workersMin
    hMax,           \* o.config.workersMax
    hQueue,         \* o.queue
    hNeedWorker,    \* o.needWorker, a channel of capacity 1
    hActive,        \* o.activeWorkers
    hWorkers,       \* the startWorker goroutines, a bag of [pc, deathCount, wc]
    hWriter,        \* the goroutine inside Write: [pc, wc, extra]
    hWrites,        \* number of Write calls made so far
    hTrack,         \* o.config.TrackResponses
    hResponses,     \* o.responses, a channel of capacity queueLen
    hRead,          \* what the calls of Read returned so far, in order
    hSent,          \* with TrackResponses, the requests sent so far:
                    \* [uuid, start, stop]
    \* ---- emitter copy loop (src/emitter.go, CopyMulty)
    emSplit,        \* Settings.splitOutput
    emModifier,     \* modifier != nil
    emPrettify,     \* Settings.prettifyHTTP
    emWIndex,       \* wIndex
    emFiltered,     \* filteredRequests: request id -> time of the drop
    emLastClean,    \* filteredRequestsLastCleanTime
    emI,            \* i
    emNow,          \* the wall clock, in seconds since CopyMulty started
    emLogs,         \* writer -> the records (by read number) its Write was called with
    emReturned,     \* "running", or how CopyMulty returned
    emReads,        \* number of records read so far
    emLast,         \* what the loop saw of the record read last
    \* ---- reassembler (raw_socket_listener, Listener)
    rawTest,        \* the test whose packets are captured
    packetsChan,    \* packets of the flow not yet received by the listener
    rawArrived,     \* the packets received so far, in arrival order
    rawLost,        \* number of packets the capture lost
    messages,       \* message id -> in-progress message
    ackAliases,     \* ack of a body chunk -> ack of the message it belongs to
    seqWithData,    \* seq expected after an Expect: 100-continue header -> its ack
    respAliases,    \* response ack -> UUID of the request that completed
    respWithoutReq, \* ack -> id of a response that has no request yet
    messagesChan,   \* the messages emitted so far, in order
    rawUUID,        \* number of UUIDs handed out
    rawExpired,     \* the expiry period has passed after the last packet
    \* ---- getBufferIndex as a function (src/settings.go)
    idxIntSize,     \* width in bits of int in the build: 32 (386) or 64 (amd64)
    idxSticky,      \* o.config.sticky
    idxCalls,       \* the calls made so far: [uuid, index]
    \* ---- replay HTTP client (src/http_client.go, HTTPClient)
    cFollow,        \* c.config.FollowRedirects
    cBufCap,        \* len(c.respBuf), in tokens
    cConn,          \* c.conn: "nil" or "open"
    cPipe,          \* what the origin sends on c.conn and the client has not read
    cPeerClosed,    \* the origin has closed its side of c.conn
    cPc,            \* "idle", "read" (inside the read loop), "redirect" (about
                    \* to send a follow-up) or "returned"
    cData,          \* the path of the request being sent
    cLoop,          \* locals of send: [buf, chunked, length, current]
    cRedirects,     \* c.redirectsCount
    cFollowUps,     \* follow-up requests issued by the current top-level Send
    cExch,          \* the exchange in flight: the origin's reply, whether the
                    \* socket was clean when it started, the tokens read of it
    cLast,          \* what the last Send returned
    \* ---- indexed file names (src/http_client.go, setFileIndex and sorting)
    nmPath,         \* the path given to setFileIndex
    nmMatches,      \* the siblings named so far: [idx, name]
    nmSorted,       \* the siblings as the last sort left them, or <<>>
    \* ---- file sink (src/http_client.go, FileOutput)
    fCfg,           \* pathTemplate and o.config
    fOut,           \* the fields of the FileOutput; writer is what the
                    \* buffered writer holds, open whether o.file is open
    fDisk,          \* the files: name -> content
    fOld,           \* the files as they were when the sink was created
    fNow,           \* the wall clock, in seconds
    fTimer,         \* the periodic task: "sleep", "awake" (IsClosed()
                    \* returned false) or "stopped"
    fLog,           \* per Write: the file it went to, the payload, the
                    \* clock and whether it returned an error
    fClosedFiles,   \* per close of an open file: [name, size, last]
    fCloseCalled,   \* Close has been called
    \* ---- buffer-size parser (src/settings.go, bufferParser)
    bpSize,         \* the size string given
    bpRpl,          \* the replacement for an empty size
    bpResult,       \* <<>>, or <<r>> for what bufferParser returned:
                    \* r = [n, shift, err] stands for n * 2^shift
    \* ---- emitter start-up (src/emitter.go, Start)
    stCfg,          \* the copy tasks started, the plugins that are
                    \* io.Closers, Settings.exitAfter > 0
    stTask,         \* copy task -> [pc, cause, ret, writes]: where it is,
                    \* why CopyMulty returned and what, payloads forwarded
    stStop,         \* the stop channel: "open" or "closed"
    stClosedBy,     \* who executed close(stop), in order
    stPanic,        \* a close of the closed channel has panicked
    stExit,         \* the exitAfter timer: "off", "armed" or "fired"
    stStart,        \* Start: "loop", "finalize" or "returned"
    stFinal,        \* finalize: the next plugin of plugins.All
    stClosed        \* the plugins finalize has closed

tcpVars == <<tcpSticky, tcpBuf, tcpWorkers, tcpDelivered, tcpWrites>>
httpVars == <<hMin, hMax, hQueue, hNeedWorker, hActive, hWorkers, hWriter, hWrites,
              hTrack, hResponses, hRead, hSent>>

emVars == <<emSplit, emModifier, emPrettify, emWIndex, emFiltered, emLastClean,
            emI, emNow, emLogs, emReturned, emReads, emLast>>

rawVars == <<rawTest, packetsChan, rawArrived, rawLost, messages, ackAliases,
             seqWithData, respAliases, respWithoutReq, messagesChan, rawUUID,
             rawExpired>>

idxVars == <<idxIntSize, idxSticky, idxCalls>>

clientVars == <<cFollow, cBufCap, cConn, cPipe, cPeerClosed, cPc, cData, cLoop,
                cRedirects, cFollowUps, cExch, cLast>>

nmVars == <<nmPath, nmMatches, nmSorted>>

fVars == <<fCfg, fOut, fDisk, fOld, fNow, fTimer, fLog, fClosedFiles, fCloseCalled>>

bpVars == <<bpSize, bpRpl, bpResult>>

stVars == <<stCfg, stTask, stStop, stClosedBy, stPanic, stExit, stStart, stFinal,
            stClosed>>

vars == <<tcpVars, httpVars, emVars, rawVars, idxVars, clientVars, nmVars, fVars,
          bpVars, stVars>>

\* What the actions of one component leave alone.
notTCP ==
    <<httpVars, emVars, rawVars, idxVars, clientVars, nmVars, fVars, bpVars, stVars>>
notHTTP ==
    <<tcpVars, emVars, rawVars, idxVars, clientVars, nmVars, fVars, bpVars, stVars>>
notEmit ==
    <<tcpVars, httpVars, rawVars, idxVars, clientVars, nmVars, fVars, bpVars, stVars>>
notRaw ==
    <<tcpVars, httpVars, emVars, idxVars, clientVars, nmVars, fVars, bpVars, stVars>>
notIndex ==
    <<tcpVars, httpVars, emVars, rawVars, clientVars, nmVars, fVars, bpVars, stVars>>
notClient ==
    <<tcpVars, httpVars, emVars, rawVars, idxVars, nmVars, fVars, bpVars, stVars>>
notNames ==
    <<tcpVars, httpVars, emVars, rawVars, idxVars, clientVars, fVars, bpVars, stVars>>
notFile ==
    <<tcpVars, httpVars, emVars, rawVars, idxVars, clientVars, nmVars, bpVars, stVars>>
notParser ==
    <<tcpVars, httpVars, emVars, rawVars, idxVars, clientVars, nmVars, fVars, stVars>>
notStart ==
    <<tcpVars, httpVars, emVars, rawVars, idxVars, clientVars, nmVars, fVars, bpVars>>

(***************************************************************************)
(* Bounds of the model.                                                    *)
(***************************************************************************)
\* Write calls made on the TCP sink in one behaviour.
MaxWrites == 3
\* Capacity of a worker channel, scaled down from make(chan []byte, 100)
\* (sticky) and make(chan []byte, 1000) (shared) so that a full channel is
\* reached within MaxWrites.
ChanCap == 2
\* Write calls made on the HTTP output in one behaviour.
MaxHTTPWrites == 2
\* Largest configured output-http-workers value.
MaxWorkersMax == 2
\* startWorker goroutines alive at once (the master waits beyond it).
MaxHTTPGoroutines == 4
\* Capacity of o.queue, scaled down from output-http-queue-len (1000).
HTTPQueueLen == 2
\* Idle 100ms ticks after which a worker may die, scaled down from 20.
DeathTicks == 2
\* Reads the copy loop makes in one behaviour.
MaxReads == 4
\* Writers handed to CopyMulty.
NumWriters == 2
\* The clock advances ClockStep seconds at a time, MaxTicks times at most.
ClockStep == 61
MaxTicks == 1
\* Reassembler: packets of one flow the capture may lose.
MaxLost == 1
\* getBufferIndex: calls made in one behaviour, and the longest request id.
MaxIndexCalls == 2
MaxUUIDLen == 2
\* Replay client: the largest redirect limit, the 1xx responses an origin
\* sends before its final response, and the unread tokens of an earlier
\* exchange a new top-level Send may find on the socket.
MaxFollowRedirects == 2
MaxInterim == 2
MaxStale == 1
\* File names: the paths have at most MaxNameLen bytes, a path gets at most
\* MaxSiblings siblings, and indexes up to MaxFileIndex are set.
MaxNameLen == 3
MaxSiblings == 2
MaxFileIndex == 11
\* File sink: at most MaxFileWrites Writes, the clock advances at most
\* MaxFileTicks seconds.
MaxFileWrites == 3
MaxFileTicks == 1
\* File sink: an earlier run has left siblings with indexes up to MaxOldIndex.
MaxOldIndex == 1
\* Buffer-size parser: sizes of at most MaxSizeLen bytes.
MaxSizeLen == 4
\* Emitter start-up: at most NumCopyTasks copy tasks, NumPlugins plugins,
\* MaxStartWrites payloads forwarded by a copy task.
NumCopyTasks == 2
NumPlugins == 2
MaxStartWrites == 2

(***************************************************************************)
(*                               TCP sink                                  *)
(***************************************************************************)
\* The worker pool size and the number of sticky channels.
TCPWorkerCount == 10

\* Payload kinds of the envelope: 1 request, 2 response, 3 replayed response.
PayloadKinds == {1, 2, 3}

\* UUIDs (the second envelope field) as byte strings: "0" hashes to sticky
\* channel 3 and "1" to sticky channel 4.
TCPUUIDs == {<<48>>, <<49>>}

\* isOriginPayload: a captured request or a captured response.
isOriginPayload(p) == p.kind \in {1, 2}

\* Bitwise exclusive or of two n-bit naturals.
RECURSIVE xorBits(_, _, _)
xorBits(a, b, n) ==
    IF n = 0 THEN 0
    ELSE (((a % 2) + (b % 2)) % 2) + 2 * xorBits(a \div 2, b \div 2, n - 1)

\* hash/fnv New32a: the 32-bit state is kept as <<high 16 bits, low 16 bits>>.
\* offset basis 2166136261 = 0x811C9DC5, prime 16777619 = 2^24 + 403.
fnvOffset32 == <<33052, 40389>>

fnvWrite32a(h, byte) ==
    LET lo  == xorBits(h[2], byte, 16)
        hi  == h[1]
        pl  == lo * 403
    IN  << ((hi * 403) + (pl \div 65536) + ((lo % 256) * 256)) % 65536,
           pl % 65536 >>

RECURSIVE fnv32a(_, _)
fnv32a(h, bytes) ==
    IF bytes = <<>> THEN h
    ELSE fnv32a(fnvWrite32a(h, Head(bytes)), Tail(bytes))

\* (hi * 2^16 + lo) mod m for a non-negative value given in 16-bit limbs.
sum32Mod(h, m) == ((h[1] % m) * (65536 % m) + (h[2] % m)) % m

\* The widths int has in the builds of the Makefile: GOARCH=386 and amd64.
IntSizes == {32, 64}

\* int(hasher.Sum32()) % m.  A 64-bit int holds every uint32; a 32-bit int
\* wraps the values from 2^31 on to v - 2^32, and the remainder of a negative
\* dividend is negative or zero (Go truncates the quotient toward zero).
intSum32Rem(intSize, h, m) ==
    IF intSize = 32 /\ h[1] >= 32768
    THEN 0 - sum32Mod(<<65535 - h[1], 65536 - h[2]>>, m)
    ELSE sum32Mod(h, m)

getBufferIndex(intSize, sticky, p) ==
    IF ~sticky THEN 0
    ELSE intSum32Rem(intSize, fnv32a(fnvOffset32, p.uuid), TCPWorkerCount)

\* NewTCPOutput: the channels, and the workers once they have dialled.
tcpBufIndexes(sticky) == IF sticky THEN 0 .. (TCPWorkerCount - 1) ELSE {0}

tcpWorker(i, pc, data) == [buf |-> i, pc |-> pc, data |-> data]

NewTCPOutputWorkers(sticky) ==
    IF sticky
    THEN SetToBag({tcpWorker(i, "recv", <<>>) : i \in 0 .. (TCPWorkerCount - 1)})
    ELSE [w \in {tcpWorker(0, "recv", <<>>)} |-> TCPWorkerCount]

TCPIdle ==
    /\ tcpSticky = FALSE
    /\ tcpBuf = <<>>
    /\ tcpWorkers = EmptyBag
    /\ tcpDelivered = <<>>
    /\ tcpWrites = 0

TCPInit ==
    /\ tcpSticky \in BOOLEAN
    /\ tcpBuf = [i \in tcpBufIndexes(tcpSticky) |-> <<>>]
    /\ tcpWorkers = NewTCPOutputWorkers(tcpSticky)
    /\ tcpDelivered = <<>>
    /\ tcpWrites = 0

\* The sink is modelled on the amd64 build, the one the Dockerfile ships.
\* o.buf[bufferIndex] <- data: a channel send appends at the tail.
chanSend(q, data) == Append(q, data)

\* TCPOutput.Write: non-origin payloads are dropped, the others are copied
\* into the channel getBufferIndex selects (the send blocks on a full one).
TCPWrite(kind, uuid) ==
    /\ tcpWrites < MaxWrites
    /\ LET p   == [n |-> tcpWrites + 1, kind |-> kind, uuid |-> uuid]
           idx == getBufferIndex(64, tcpSticky, p)
       IN  IF ~isOriginPayload(p)
           THEN UNCHANGED tcpBuf
           ELSE /\ Len(tcpBuf[idx]) < ChanCap
                /\ tcpBuf' = [tcpBuf EXCEPT ![idx] = chanSend(@, p)]
    /\ tcpWrites' = tcpWrites + 1
    /\ UNCHANGED <<tcpSticky, tcpWorkers, tcpDelivered, notTCP>>

tcpMove(w, w2) == (tcpWorkers (-) SetToBag({w})) (+) SetToBag({w2})

\* worker: data := <-o.buf[bufferIndex]
TCPWorkerRecv(w) ==
    /\ w.pc = "recv"
    /\ tcpBuf[w.buf] # <<>>
    /\ tcpWorkers' = tcpMove(w, tcpWorker(w.buf, "write", <<Head(tcpBuf[w.buf])>>))
    /\ tcpBuf' = [tcpBuf EXCEPT ![w.buf] = Tail(@)]
    /\ UNCHANGED <<tcpSticky, tcpDelivered, tcpWrites, notTCP>>

\* worker: conn.Write(data); conn.Write(payloadSeparator) with err == nil
TCPWorkerWriteOk(w) ==
    /\ w.pc = "write"
    /\ tcpDelivered' = Append(tcpDelivered, w.data[1])
    /\ tcpWorkers' = tcpMove(w, tcpWorker(w.buf, "recv", <<>>))
    /\ UNCHANGED <<tcpSticky, tcpBuf, tcpWrites, notTCP>>

\* worker: the write of the separator returns an error
TCPWorkerWriteFail(w) ==
    /\ w.pc = "write"
    /\ tcpWorkers' = tcpMove(w, tcpWorker(w.buf, "requeue", w.data))
    /\ UNCHANGED <<tcpSticky, tcpBuf, tcpDelivered, tcpWrites, notTCP>>

\* worker: o.buf[bufferIndex] <- data; go o.worker(bufferIndex); break
TCPWorkerRequeue(w) ==
    /\ w.pc = "requeue"
    /\ Len(tcpBuf[w.buf]) < ChanCap
    /\ tcpBuf' = [tcpBuf EXCEPT ![w.buf] = chanSend(@, w.data[1])]
    /\ tcpWorkers' = tcpMove(w, tcpWorker(w.buf, "connect", <<>>))
    /\ UNCHANGED <<tcpSticky, tcpDelivered, tcpWrites, notTCP>>

\* worker: the dial loop of a replacement worker succeeds
TCPWorkerConnect(w) ==
    /\ w.pc = "connect"
    /\ tcpWorkers' = tcpMove(w, tcpWorker(w.buf, "recv", <<>>))
    /\ UNCHANGED <<tcpSticky, tcpBuf, tcpDelivered, tcpWrites, notTCP>>

TCPNext ==
    \/ \E kind \in PayloadKinds, uuid \in TCPUUIDs : TCPWrite(kind, uuid)
    \/ \E w \in BagToSet(tcpWorkers) : TCPWorkerRecv(w)
    \/ \E w \in BagToSet(tcpWorkers) : TCPWorkerWriteOk(w)
    \/ \E w \in BagToSet(tcpWorkers) : TCPWorkerWriteFail(w)
    \/ \E w \in BagToSet(tcpWorkers) : TCPWorkerRequeue(w)
    \/ \E w \in BagToSet(tcpWorkers) : TCPWorkerConnect(w)


\* C1: in sticky mode, two payloads with the same UUID reach the peer in the
\* order in which Write accepted them, write failures and reconnects
\* included.
StickyDeliveryInOrder ==
    tcpSticky =>
        \A i, j \in DOMAIN tcpDelivered :
            (i < j /\ tcpDelivered[i].uuid = tcpDelivered[j].uuid)
                => tcpDelivered[i].n < tcpDelivered[j].n

\* C13: when a worker's write fails, the step that puts the payload back
\* leaves it at the head of that worker's channel, so that it is the next
\* payload received from the channel, and the failed worker is replaced by
\* exactly one worker of the same channel.
RequeuedAtHead ==
    [][\A w \in BagToSet(tcpWorkers) :
          (w.pc = "requeue" /\ tcpBuf' # tcpBuf
              /\ tcpWorkers' = tcpMove(w, tcpWorker(w.buf, "connect", <<>>)))
          => /\ Head(tcpBuf'[w.buf]) = w.data[1]
             /\ BagCardinality(tcpWorkers') = BagCardinality(tcpWorkers)]_vars

\* The payloads the sink holds: in a channel or in the hands of a worker.
tcpHeld ==
    UNION {{tcpBuf[i][k] : k \in DOMAIN tcpBuf[i]} : i \in DOMAIN tcpBuf}
    \cup UNION {{w.data[k] : k \in DOMAIN w.data} : w \in BagToSet(tcpWorkers)}

\* Channel i is full and each of its workers waits to put a payload back:
\* nothing will receive from the channel any more.
tcpBlocked(i) ==
    /\ Len(tcpBuf[i]) = ChanCap
    /\ \A w \in BagToSet(tcpWorkers) : w.buf = i => w.pc = "requeue"

\* C36: after a write error the failed payload goes back to the channel and
\* a replacement worker starts, whatever the occupancy of the channel: no
\* channel is ever full with all of its workers waiting to put a payload
\* back (a state in which its payloads are never written and Write blocks
\* for ever), and a payload the sink holds stays held until it is written
\* to a connection.
ProgressAfterWriteError ==
    /\ [](\A i \in DOMAIN tcpBuf : ~tcpBlocked(i))
    /\ [][\A p \in tcpHeld :
            p \in tcpHeld' \/ (\E k \in DOMAIN tcpDelivered' : tcpDelivered'[k] = p)]_vars

(***************************************************************************)
(*                    getBufferIndex as a pure function                    *)
(***************************************************************************)
\* Request ids are hex strings; three of the digits are enough to reach hash
\* values on both sides of 2^31.
HexBytes == {48, 97, 102}

RECURSIVE bytesUpTo(_)
bytesUpTo(n) ==
    IF n = 0 THEN {<<>>}
    ELSE LET shorter == bytesUpTo(n - 1)
         IN  shorter \cup {Append(b, c) : b \in shorter, c \in HexBytes}

IndexUUIDs == bytesUpTo(MaxUUIDLen) \ {<<>>}

IndexIdle ==
    /\ idxIntSize = 64
    /\ idxSticky = FALSE
    /\ idxCalls = <<>>

IndexInit ==
    /\ idxIntSize \in IntSizes
    /\ idxSticky \in BOOLEAN
    /\ idxCalls = <<>>

\* One call of getBufferIndex on a payload whose request id is uuid.
IndexCall(uuid) ==
    /\ Len(idxCalls) < MaxIndexCalls
    /\ idxCalls' = Append(idxCalls,
           [uuid |-> uuid,
            index |-> getBufferIndex(idxIntSize, idxSticky, [uuid |-> uuid])])
    /\ UNCHANGED <<idxIntSize, idxSticky, notIndex>>

IndexNext == \E uuid \in IndexUUIDs : IndexCall(uuid)

\* C14: in sticky mode the index depends only on the request id and lies in
\* 0..9 whatever the hash value, so that two payloads sharing a request id
\* select the same channel; in non-sticky mode the index is 0.
BufferIndexInRange ==
    \A i, j \in DOMAIN idxCalls :
        /\ idxSticky => idxCalls[i].index \in 0 .. (TCPWorkerCount - 1)
        /\ (idxSticky /\ idxCalls[i].uuid = idxCalls[j].uuid)
               => idxCalls[i].index = idxCalls[j].index
        /\ ~idxSticky => idxCalls[i].index = 0

(***************************************************************************)
(*                        HTTP output worker pool                          *)
(***************************************************************************)
initialDynamicWorkers == 10

hWorker(pc, deathCount, wc) ==
    [pc |-> pc, deathCount |-> deathCount, wc |-> wc, uuid |-> 0, start |-> 0]
\* A worker inside sendRequest, between the two readings of time.Now().
hSender(uuid, start) ==
    [pc |-> "send", deathCount |-> 0, wc |-> 0, uuid |-> uuid, start |-> start]
hWriterAt(pc, wc, extra) == [pc |-> pc, wc |-> wc, extra |-> extra]

\* The configurations explored, <<workersMin, workersMax>>: a positive
\* maximum, fixed (min = max) or dynamic (min < max), and the default flags
\* (src/settings.go:187-188), where both are 0.
HTTPConfigs ==
    {c \in (0 .. MaxWorkersMax) \X (0 .. MaxWorkersMax) :
        c[1] <= c[2] /\ (c[2] = 0 => c[1] = 0)}

hRespVars == <<hTrack, hResponses, hRead, hSent>>

\* time.Now() as a wall clock reading (UnixNano): the wall clock is set by
\* the system and may be stepped between two readings.
WallClock == {0, 1}

HTTPIdle ==
    /\ hMin = 0
    /\ hMax = 0
    /\ hQueue = <<>>
    /\ hNeedWorker = <<>>
    /\ hActive = 0
    /\ hWorkers = EmptyBag
    /\ hWriter = hWriterAt("idle", 0, 0)
    /\ hWrites = 0
    /\ hTrack = FALSE
    /\ hResponses = <<>>
    /\ hRead = <<>>
    /\ hSent = <<>>

\* NewHTTPOutput: the initial worker count is pushed on needWorker and the
\* master is started.
NewHTTPOutput(min, max, track) ==
    /\ hMin = min
    /\ hMax = max
    /\ hTrack = track
    /\ hResponses = <<>>
    /\ hRead = <<>>
    /\ hSent = <<>>
    /\ hQueue = <<>>
    /\ hNeedWorker = IF max = 0 THEN <<initialDynamicWorkers>> ELSE <<max>>
    /\ hActive = 0
    /\ hWorkers = EmptyBag
    /\ hWriter = hWriterAt("idle", 0, 0)
    /\ hWrites = 0

\* Response tracking is explored with the pools that do not scale (min =
\* max): sendRequest and Read touch nothing the scaling reads.
HTTPInit ==
    \E c \in HTTPConfigs, track \in BOOLEAN :
        /\ track => c[1] = c[2]
        /\ NewHTTPOutput(c[1], c[2], track)

hMove(w, w2) == (hWorkers (-) SetToBag({w})) (+) SetToBag({w2})

\* workerMaster: newWorkers := <-o.needWorker; go o.startWorker() each
HTTPWorkerMaster ==
    /\ hNeedWorker # <<>>
    /\ hMax = 0 \/ BagCardinality(hWorkers) + Head(hNeedWorker) <= MaxHTTPGoroutines
    /\ hWorkers' = hWorkers (+) [w \in {hWorker("start", 0, 0)} |-> Head(hNeedWorker)]
    /\ hNeedWorker' = Tail(hNeedWorker)
    /\ UNCHANGED <<hMin, hMax, hQueue, hActive, hWriter, hWrites, hRespVars, notHTTP>>

\* startWorker: atomic.AddInt64(&o.activeWorkers, 1)
HTTPStartWorker(w) ==
    /\ w.pc = "start"
    /\ hActive' = hActive + 1
    /\ hWorkers' = hMove(w, hWorker("loop", 0, 0))
    /\ UNCHANGED <<hMin, hMax, hQueue, hNeedWorker, hWriter, hWrites, hRespVars, notHTTP>>

\* The struct literal of sendRequest, response{resp, uuid, start, stop - start},
\* is positional: the fields are filled in the order of the declaration
\* (payload, uuid, roundTripTime, startedAt).
response(uuid, third, fourth) ==
    [uuid |-> uuid, roundTripTime |-> third, startedAt |-> fourth]

\* payloadHeader(payloadType, uuid, timing, latency): the envelope line
\* "kind uuid nanos extra".
payloadHeader(payloadType, uuid, timing, latency) ==
    [kind |-> payloadType, uuid |-> uuid, nanos |-> timing, extra |-> latency]

ReplayedResponsePayload == 3

\* startWorker: case data := <-o.queue: sendRequest, up to start := time.Now().
\* sendRequest returns at once for a payload without a UUID or without an
\* HTTP message; deathCount = 0 either way.
HTTPWorkerTake(w) ==
    /\ w.pc = "loop"
    /\ hQueue # <<>>
    /\ hQueue' = Tail(hQueue)
    /\ IF Head(hQueue).http
       THEN \E start \in WallClock :
                hWorkers' = hMove(w, hSender(Head(hQueue).uuid, start))
       ELSE hWorkers' = hMove(w, hWorker("loop", 0, 0))
    /\ UNCHANGED <<hMin, hMax, hNeedWorker, hActive, hWriter, hWrites, hRespVars, notHTTP>>

\* sendRequest: client.Send has returned; stop := time.Now(); with
\* TrackResponses the response is pushed on o.responses (the worker blocks
\* while the channel is full).
HTTPWorkerSent(w) ==
    /\ w.pc = "send"
    /\ \E stop \in WallClock :
          IF hTrack
          THEN /\ Len(hResponses) < HTTPQueueLen
               /\ hResponses' = Append(hResponses,
                                       response(w.uuid, w.start, stop - w.start))
               /\ hSent' = Append(hSent, [uuid |-> w.uuid, start |-> w.start,
                                          stop |-> stop])
          ELSE UNCHANGED <<hResponses, hSent>>
    /\ hWorkers' = hMove(w, hWorker("loop", 0, 0))
    /\ UNCHANGED <<hMin, hMax, hQueue, hNeedWorker, hActive, hWriter, hWrites,
                   hTrack, hRead, notHTTP>>

\* Read: resp := <-o.responses; the header is built from the response.
HTTPRead ==
    /\ hResponses # <<>>
    /\ LET resp == Head(hResponses)
       IN  hRead' = Append(hRead, payloadHeader(ReplayedResponsePayload, resp.uuid,
                                                resp.roundTripTime, resp.startedAt))
    /\ hResponses' = Tail(hResponses)
    /\ UNCHANGED <<hMin, hMax, hQueue, hNeedWorker, hActive, hWorkers, hWriter,
                   hWrites, hTrack, hSent, notHTTP>>

\* deathCount > 20
deathDue(deathCount) == deathCount > DeathTicks

\* startWorker: case <-time.After(100ms), up to the load of activeWorkers.
\* deathCount is kept up to the first value that is due.
HTTPWorkerTick(w) ==
    /\ w.pc = "loop"
    /\ hQueue = <<>>
    /\ IF hMin = hMax
       THEN UNCHANGED hWorkers
       ELSE LET dc == IF deathDue(w.deathCount) THEN w.deathCount
                      ELSE w.deathCount + 1
            IN  IF deathDue(dc)
                THEN hWorkers' = hMove(w, hWorker("check", dc, hActive))
                ELSE hWorkers' = hMove(w, hWorker("loop", dc, 0))
    /\ UNCHANGED <<hMin, hMax, hQueue, hNeedWorker, hActive, hWriter, hWrites, hRespVars, notHTTP>>

\* workersCount != 1 && workersCount > o.config.workersMin
mayDie(workersCount, min) == workersCount # 1 /\ workersCount > min

\* startWorker: the test of the loaded count, then AddInt64(-1) and return
HTTPWorkerDecide(w) ==
    /\ w.pc = "check"
    /\ IF mayDie(w.wc, hMin)
       THEN /\ hActive' = hActive - 1
            /\ hWorkers' = hWorkers (-) SetToBag({w})
       ELSE /\ hWorkers' = hMove(w, hWorker("loop", w.deathCount, 0))
            /\ UNCHANGED hActive
    /\ UNCHANGED <<hMin, hMax, hQueue, hNeedWorker, hWriter, hWrites, hRespVars, notHTTP>>

\* isRequestPayload
isRequestPayload(p) == p.kind = 1

\* Write: the payload is queued (only a request is); scaling is considered
\* when workersMax != workersMin.
HTTPWrite(kind, http) ==
    /\ hWriter.pc = "idle"
    /\ hWrites < MaxHTTPWrites
    /\ hWrites' = hWrites + 1
    /\ IF ~isRequestPayload([kind |-> kind])
       THEN UNCHANGED <<hQueue, hWriter>>
       ELSE /\ Len(hQueue) < HTTPQueueLen
            /\ hQueue' = Append(hQueue, [uuid |-> hWrites + 1, http |-> http])
            /\ hWriter' = IF hMax # hMin THEN hWriterAt("load", 0, 0) ELSE hWriter
    /\ UNCHANGED <<hMin, hMax, hNeedWorker, hActive, hWorkers, hRespVars, notHTTP>>

\* Write: workersCount := int(atomic.LoadInt64(&o.activeWorkers))
HTTPWriteLoad ==
    /\ hWriter.pc = "load"
    /\ hWriter' = hWriterAt("len", hActive, 0)
    /\ UNCHANGED <<hMin, hMax, hQueue, hNeedWorker, hActive, hWorkers, hWrites, hRespVars, notHTTP>>

\* Write: if len(o.queue) > workersCount
HTTPWriteTest ==
    /\ hWriter.pc = "len"
    /\ hWriter' = IF Len(hQueue) > hWriter.wc
                  THEN hWriterAt("extra", hWriter.wc, 0)
                  ELSE hWriterAt("idle", 0, 0)
    /\ UNCHANGED <<hMin, hMax, hQueue, hNeedWorker, hActive, hWorkers, hWrites, hRespVars, notHTTP>>

\* extraWorkersReq, capped by maxWorkersAvailable
extraWorkersReq(queueLen, workersCount, max) ==
    LET req   == queueLen - workersCount + 1
        avail == max - workersCount
    IN  IF req > avail THEN avail ELSE req

\* Write: the second read of len(o.queue) and the computation of the request
HTTPWriteExtra ==
    /\ hWriter.pc = "extra"
    /\ LET extra == extraWorkersReq(Len(hQueue), hWriter.wc, hMax)
       IN  hWriter' = IF extra > 0
                      THEN hWriterAt("send", hWriter.wc, extra)
                      ELSE hWriterAt("idle", 0, 0)
    /\ UNCHANGED <<hMin, hMax, hQueue, hNeedWorker, hActive, hWorkers, hWrites, hRespVars, notHTTP>>

\* Write: o.needWorker <- extraWorkersReq
HTTPWriteSend ==
    /\ hWriter.pc = "send"
    /\ Len(hNeedWorker) < 1
    /\ hNeedWorker' = Append(hNeedWorker, hWriter.extra)
    /\ hWriter' = hWriterAt("idle", 0, 0)
    /\ UNCHANGED <<hMin, hMax, hQueue, hActive, hWorkers, hWrites, hRespVars, notHTTP>>

HTTPNext ==
    \/ HTTPWorkerMaster
    \/ \E w \in BagToSet(hWorkers) : HTTPStartWorker(w)
    \/ \E w \in BagToSet(hWorkers) : HTTPWorkerTake(w)
    \/ \E w \in BagToSet(hWorkers) : HTTPWorkerTick(w)
    \/ \E w \in BagToSet(hWorkers) : HTTPWorkerDecide(w)
    \/ \E w \in BagToSet(hWorkers) : HTTPWorkerSent(w)
    \/ HTTPRead
    \/ \E kind \in PayloadKinds, http \in BOOLEAN : HTTPWrite(kind, http)
    \/ HTTPWriteLoad
    \/ HTTPWriteTest
    \/ HTTPWriteExtra
    \/ HTTPWriteSend

\* C2: in dynamic mode with a positive maximum the number of active workers
\* never exceeds workers_max.
ActiveWorkersAtMostMax ==
    (hMax # hMin /\ hMax > 0) => hActive <= hMax

\* C3: no worker exit takes the active worker count below workers_min or
\* down to 0.
WorkerExitKeepsFloor ==
    [][hActive' < hActive => (hActive' >= hMin /\ hActive' >= 1)]_vars

\* C21: with response tracking on, every request a worker has sent yields
\* exactly one response, and Read returns it with kind 3, the UUID of the
\* request, nanos = the reading of the clock when the send started and
\* extra = stop - start >= 0; with tracking off no response is produced.
ReplayedResponses ==
    /\ ~hTrack => (hResponses = <<>> /\ hRead = <<>>)
    /\ hTrack =>
         /\ Len(hRead) + Len(hResponses) = Len(hSent)
         /\ \A i, j \in DOMAIN hRead : hRead[i].uuid = hRead[j].uuid => i = j
         /\ \A i \in DOMAIN hRead :
               /\ hRead[i].kind = 3
               /\ hRead[i].extra >= 0
               /\ \E j \in DOMAIN hSent :
                     /\ hRead[i].uuid = hSent[j].uuid
                     /\ hRead[i].nanos = hSent[j].start
                     /\ hRead[i].extra = hSent[j].stop - hSent[j].start

\* The goroutines of the pool, started or still asked for on needWorker.
poolSize ==
    BagCardinality(hWorkers) + (IF hNeedWorker = <<>> THEN 0 ELSE Head(hNeedWorker))

\* C22: with workersMax = 0 the pool starts with 10 workers and is not
\* limited: a Write that leaves more requests in the queue than there are
\* active workers goes on to ask for more workers, and a Write that has found
\* the queue deeper than the active workers (below a positive maximum, or
\* with no maximum) sends a positive number on needWorker.
PoolScalesUp ==
    /\ [](hMax = 0 => poolSize = initialDynamicWorkers)
    /\ [][(hMax = 0 /\ hQueue' # hQueue /\ hWrites' = hWrites + 1
              /\ Len(hQueue') > hActive)
            => (hWriter'.pc # "idle")]_vars
    /\ [][(hWriter.pc = "extra" /\ hWriter' # hWriter /\ Len(hQueue) > hWriter.wc
              /\ (hMax = 0 \/ hWriter.wc < hMax))
            => (hWriter'.pc = "send")]_vars

(***************************************************************************)
(*                          Emitter copy loop                              *)
(***************************************************************************)
\* The inputs of one Read of the source: the envelope kind and request id of
\* the record, whether modifier.Rewrite returns an empty body for it, whether
\* prettifyHTTP returns an empty payload for it, and which Write call of the
\* fan-out returns an error (0: none).  A record the loop does not process
\* has a shape: "malformed" (fewer than 3 envelope fields), "toolarge"
\* (nr >= len(buf)), "empty" (nr = 0).
EmitUUIDs == {"a", "b"}
EmitShapes == {"malformed", "toolarge", "empty"}
EmitKinds == {1, 2}
Writers == 0 .. (NumWriters - 1)

\* 60*time.Second, twice: the sweep period and the age of an evicted entry.
SweepPeriod == 60
SweepAge == 60
\* i%1000
SweepEvery == 1000

\* What the loop saw of a record: the record, its shape, the verdicts of
\* the modifier and of prettifyHTTP, whether its request id was in
\* filteredRequests when it was read, and the failing Write call.
emRecord(n, kind, uuid, shape, drop, empty, recorded, fail) ==
    [n |-> n, kind |-> kind, uuid |-> uuid, shape |-> shape, drop |-> drop,
     empty |-> empty, recorded |-> recorded, fail |-> fail]

EmitIdle ==
    /\ emSplit = FALSE
    /\ emModifier = FALSE
    /\ emPrettify = FALSE
    /\ emWIndex = 0
    /\ emFiltered = <<>>
    /\ emLastClean = 0
    /\ emI = 0
    /\ emNow = 0
    /\ emLogs = <<>>
    /\ emReturned = "idle"
    /\ emReads = 0
    /\ emLast = emRecord(0, 0, "", "none", FALSE, FALSE, FALSE, 0)

\* CopyMulty, up to its loop.
EmitInit ==
    /\ emSplit \in BOOLEAN
    /\ emModifier \in BOOLEAN
    /\ emPrettify \in BOOLEAN
    /\ emWIndex = 0
    /\ emFiltered = <<>>
    /\ emLastClean = 0
    /\ emI = 0
    /\ emNow = 0
    /\ emLogs = [w \in Writers |-> <<>>]
    /\ emReturned = "running"
    /\ emReads = 0
    /\ emLast = emRecord(0, 0, "", "none", FALSE, FALSE, FALSE, 0)

\* filteredRequests[requestID] = time.Now()
filterRecord(filtered, id, now) ==
    [x \in (DOMAIN filtered) \cup {id} |-> IF x = id THEN now ELSE filtered[x]]

\* Variant of filterForget that keeps the entry.
filterKeep(filtered, id) == filtered

\* delete(filteredRequests, requestID)
filterForget(filtered, id) ==
    [x \in (DOMAIN filtered) \ {id} |-> filtered[x]]

\* The modifier tells to skip the request: len(body) == 0.
modifierSkips(modifier, p, drop) == modifier /\ isRequestPayload(p) /\ drop

\* A non-request payload whose request id is in filteredRequests.
responseFiltered(modifier, p, filtered) ==
    modifier /\ ~isRequestPayload(p) /\ p.uuid \in DOMAIN filtered

\* Variant of nextWIndex without the wrap.
nextWIndexNoWrap(wIndex, n) == wIndex + 1

\* wIndex++; if wIndex >= len(writers) { wIndex = 0 }
nextWIndex(wIndex, n) == IF wIndex + 1 >= n THEN 0 ELSE wIndex + 1

\* Variant of fanOut that writes to one writer in both modes.
fanOutOne(split, wIndex, fail) == <<wIndex>>

\* The writers whose Write is called for one payload, in call order: the
\* round-robin writer in split mode, every writer otherwise, up to and
\* including the one that returns an error.
fanOut(split, wIndex, fail) ==
    IF split THEN <<wIndex>>
    ELSE [k \in 1 .. (IF fail = 0 THEN NumWriters ELSE fail) |-> k - 1]

inSeq(x, q) == \E k \in DOMAIN q : q[k] = x

\* The sweep of filteredRequests at the end of an iteration.
sweep(filtered, lastClean, i, now) ==
    IF i % SweepEvery = 0 /\ now - lastClean > SweepPeriod
    THEN << [x \in {y \in DOMAIN filtered : ~(now - filtered[y] > SweepAge)}
                |-> filtered[x]], now >>
    ELSE << filtered, lastClean >>

\* One iteration of the loop of CopyMulty, from src.Read to i++, for a
\* record the loop processes (nr > 0 && len(buf) > nr, 3 envelope fields).
EmitCopy(kind, uuid, drop, empty, fail) ==
    /\ emReturned = "running"
    /\ emReads < MaxReads
    /\ LET p    == [kind |-> kind, uuid |-> uuid]
           skip == modifierSkips(emModifier, p, drop)
           filt == responseFiltered(emModifier, p, emFiltered)
           gone == emPrettify /\ empty
           out  == ~skip /\ ~filt /\ ~gone
           dst  == fanOut(emSplit, emWIndex, fail)
           end  == sweep(emFiltered, emLastClean, emI, emNow)
       IN  /\ drop => (emModifier /\ isRequestPayload(p))
           /\ empty => (emPrettify /\ ~skip /\ ~filt)
           /\ fail # 0 => (out /\ fail <= (IF emSplit THEN 1 ELSE NumWriters))
           /\ emReads' = emReads + 1
           /\ emLast' = emRecord(emReads + 1, kind, uuid, "ok", drop, empty,
                                 uuid \in DOMAIN emFiltered, fail)
           /\ emLogs' = IF out
                        THEN [w \in Writers |->
                                IF inSeq(w, dst) THEN Append(emLogs[w], emReads + 1)
                                ELSE emLogs[w]]
                        ELSE emLogs
           /\ emReturned' = IF out /\ fail # 0 THEN "writeError" ELSE "running"
           /\ emWIndex' = IF out /\ fail = 0 /\ emSplit
                          THEN nextWIndex(emWIndex, NumWriters) ELSE emWIndex
           /\ IF skip
              THEN /\ emFiltered' = filterRecord(emFiltered, uuid, emNow)
                   /\ UNCHANGED <<emLastClean, emI>>
              ELSE IF filt
              THEN /\ emFiltered' = filterForget(emFiltered, uuid)
                   /\ UNCHANGED <<emLastClean, emI>>
              ELSE IF gone \/ fail # 0
              THEN UNCHANGED <<emFiltered, emLastClean, emI>>
              ELSE /\ emFiltered' = end[1]
                   /\ emLastClean' = end[2]
                   /\ emI' = emI + 1
    /\ UNCHANGED <<emSplit, emModifier, emPrettify, emNow, notEmit>>

\* One iteration for a record the loop does not process: "malformed" is
\* skipped by continue, "toolarge" and "empty" reach the sweep and i++.
EmitSkip(shape) ==
    /\ emReturned = "running"
    /\ emReads < MaxReads
    /\ emReads' = emReads + 1
    /\ emLast' = emRecord(emReads + 1, 0, "", shape, FALSE, FALSE, FALSE, 0)
    /\ IF shape = "malformed"
       THEN UNCHANGED <<emFiltered, emLastClean, emI>>
       ELSE LET end == sweep(emFiltered, emLastClean, emI, emNow)
            IN  /\ emFiltered' = end[1]
                /\ emLastClean' = end[2]
                /\ emI' = emI + 1
    /\ UNCHANGED <<emSplit, emModifier, emPrettify, emWIndex, emNow, emLogs,
                   emReturned, notEmit>>

\* src.Read returns io.EOF: return nil
EmitReadEOF ==
    /\ emReturned = "running"
    /\ emReturned' = "eof"
    /\ UNCHANGED <<emSplit, emModifier, emPrettify, emWIndex, emFiltered,
                   emLastClean, emI, emNow, emLogs, emReads, emLast, notEmit>>

\* src.Read returns another error: return err, which is still nil
EmitReadError ==
    /\ emReturned = "running"
    /\ emReturned' = "readError"
    /\ UNCHANGED <<emSplit, emModifier, emPrettify, emWIndex, emFiltered,
                   emLastClean, emI, emNow, emLogs, emReads, emLast, notEmit>>

\* Time passes between two reads.
EmitTick ==
    /\ emReturned = "running"
    /\ emNow < MaxTicks * ClockStep
    /\ emNow' = emNow + ClockStep
    /\ UNCHANGED <<emSplit, emModifier, emPrettify, emWIndex, emFiltered,
                   emLastClean, emI, emLogs, emReturned, emReads, emLast, notEmit>>

EmitNext ==
    \/ \E kind \in EmitKinds, uuid \in EmitUUIDs,
          drop \in BOOLEAN, empty \in BOOLEAN, fail \in 0 .. NumWriters :
            EmitCopy(kind, uuid, drop, empty, fail)
    \/ \E shape \in EmitShapes : EmitSkip(shape)
    \/ EmitReadEOF
    \/ EmitReadError
    \/ EmitTick

\* The record read last, as the filter and the fan-out treated it.
lastPayload == [kind |-> emLast.kind, uuid |-> emLast.uuid]
lastDropped ==
    emLast.shape = "ok" /\ emModifier /\ isRequestPayload(lastPayload) /\ emLast.drop
lastFiltered ==
    emLast.shape = "ok" /\ emModifier /\ ~isRequestPayload(lastPayload) /\ emLast.recorded
lastEmptied == emLast.shape = "ok" /\ emPrettify /\ emLast.empty
lastSurvives ==
    emLast.shape = "ok" /\ ~lastDropped /\ ~lastFiltered /\ ~lastEmptied
writtenTo(w, n) == inSeq(n, emLogs[w])
written(n) == \E w \in Writers : writtenTo(w, n)
allWritten == {n \in 1 .. emReads : written(n)}
increasing(q) == \A i, j \in DOMAIN q : i < j => q[i] < q[j]
butLast(q) == SubSeq(q, 1, Len(q) - 1)

\* C4: with a modifier, a request the modifier drops is written to no writer
\* and its id is recorded; a non-request record whose id is recorded is
\* written to no writer and the entry is removed; every other record passes
\* the filter (it is written, or prettifyHTTP empties it).
EmitterFiltering ==
    emReturned # "idle" =>
        /\ lastDropped => (~written(emLast.n) /\ emLast.uuid \in DOMAIN emFiltered)
        /\ lastFiltered => (~written(emLast.n) /\ emLast.uuid \notin DOMAIN emFiltered)
        /\ (emLast.shape = "ok" /\ ~lastDropped /\ ~lastFiltered)
              => (written(emLast.n) \/ lastEmptied)
        /\ \A w \in Writers : \A k \in DOMAIN emLogs[w] : emLogs[w][k] \in 1 .. emReads

\* A response is filtered because its request was dropped before.
EmitterFilteringWitness ==
    /\ lastFiltered
    /\ emLast.uuid \notin DOMAIN emFiltered
    /\ emReads >= 2

\* C5: in split mode the k-th record that reaches the fan-out (k = 0, 1, ...)
\* is written to writer k mod n and to no other; records that are dropped or
\* skipped do not advance wIndex.
SplitRoundRobin ==
    (emReturned # "idle" /\ emSplit) =>
        /\ \A w \in Writers : \A n \in 1 .. emReads :
              writtenTo(w, n) <=>
                 (written(n) /\
                  Cardinality({m \in allWritten : m < n}) % NumWriters = w)
        /\ \A w \in Writers : increasing(emLogs[w])
        /\ lastSurvives => written(emLast.n)
        /\ emReturned # "writeError"
              => emWIndex = Cardinality(allWritten) % NumWriters

\* The round robin has wrapped, and a record before the last write did not
\* reach the fan-out.
SplitRoundRobinWitness ==
    /\ emSplit
    /\ \E w \in Writers : Len(emLogs[w]) >= 2
    /\ Cardinality(allWritten) < emReads

\* C6 as stated: in broadcast mode every record that reaches the fan-out is
\* written exactly once to every writer, in read order.
BroadcastToEveryWriter ==
    (emReturned # "idle" /\ ~emSplit) =>
        /\ \A w \in Writers : increasing(emLogs[w])
        /\ \A w \in Writers : emLogs[w] = emLogs[0]
        /\ lastSurvives => \A w \in Writers : writtenTo(w, emLast.n)

\* C6: in broadcast mode, until a Write returns an error, every record that
\* reaches the fan-out is written exactly once to every writer, in read
\* order; the record whose Write fails on the j-th writer has been written to
\* the first j writers only.
BroadcastUntilWriteError ==
    (emReturned # "idle" /\ ~emSplit) =>
        /\ \A w \in Writers : increasing(emLogs[w])
        /\ lastSurvives => writtenTo(0, emLast.n)
        /\ emLast.fail = 0 => \A w \in Writers : emLogs[w] = emLogs[0]
        /\ emLast.fail # 0 =>
              /\ emReturned = "writeError"
              /\ \A w \in Writers :
                    emLogs[w] = IF w < emLast.fail THEN emLogs[0]
                                ELSE butLast(emLogs[0])

\* A record is broadcast, then the second writer fails on the next one.
BroadcastUntilWriteErrorWitness ==
    /\ ~emSplit
    /\ emLast.fail = 2
    /\ Len(emLogs[0]) >= 2
    /\ Len(emLogs[1]) = Len(emLogs[0])

\* C34: the sweep is attempted on the reads number 0, 1000, 2000, ... of the
\* copy loop, whatever becomes of the payload read; when more than 60s have
\* passed since the last sweep it leaves no filteredRequests entry older
\* than 60s and records the time of the sweep; otherwise the time of the
\* last sweep stays.
SweepOncePerThousandReads ==
    [][(emReads' = emReads + 1 /\ emReturned' = "running")
          => IF emReads % SweepEvery = 0 /\ emNow - emLastClean > SweepPeriod
             THEN /\ emLastClean' = emNow
                  /\ \A x \in DOMAIN emFiltered' :
                        ~(emNow - emFiltered'[x] > SweepAge)
             ELSE emLastClean' = emLastClean]_vars

(***************************************************************************)
(*                              Reassembler                                *)
(* The listener's sources are not part of the repository snapshot: the     *)
(* packets are those of raw_socket_listener/listener_test.go, the          *)
(* reassembly follows section 4.3 of the specification, and the message    *)
(* table and the pairing indexes carry the names the tests read.           *)
(***************************************************************************)
\* HTTP data is a sequence of lines, each a string of its bytes.
crlf == "\r\n"
expect100 == "Expect: 100-continue\r\n"
chunkedEncoding == "Transfer-Encoding: chunked\r\n"
connectionClose == "Connection: close\r\n"
lastChunk == <<"0\r\n", crlf>>
continue100 == "HTTP/1.1 100 Continue\r\n"

\* Request lines and status lines of the captured traffic.
RequestLines == {"GET / HTTP/1.1\r\n", "POST / HTTP/1.1\r\n",
                 "POST /api/setup/install HTTP/1.1\r\n"}
StatusLines == {"HTTP/1.1 200 OK\r\n", "HTTP/1.1 200\r\n", continue100}
\* Methods whose requests carry no body.
BodilessLines == {"GET / HTTP/1.1\r\n"}
\* Content-Length headers of the captured traffic and their values.
contentLengths ==
    [h \in {"Content-Length: 0\r\n", "Content-Length: 2\r\n", "Content-Length: 4\r\n"}
        |-> IF h = "Content-Length: 0\r\n" THEN 0
            ELSE IF h = "Content-Length: 2\r\n" THEN 2 ELSE 4]

\* len(data)
RECURSIVE dataLen(_)
dataLen(data) ==
    IF data = <<>> THEN 0 ELSE Len(Head(data)) + dataLen(Tail(data))

\* The bytes of data, as one string.
RECURSIVE bytesOf(_)
bytesOf(data) ==
    IF data = <<>> THEN "" ELSE Head(data) \o bytesOf(Tail(data))

\* buildPacket(isIncoming, Ack, Seq, Data, timestamp); len is the length of
\* the data on the wire.
buildPacket(isIncoming, ack, seq, data) ==
    [incoming |-> isIncoming, ack |-> ack, seq |-> seq, data |-> data,
     len |-> dataLen(data), fin |-> FALSE]

firstPacket(payload) == buildPacket(TRUE, 1, 1, payload)

nextPacket(prev, payload) ==
    buildPacket(prev.incoming, prev.ack, prev.seq + prev.len, payload)

responsePacket(prev, payload) ==
    buildPacket(~prev.incoming, prev.seq + prev.len, prev.ack, payload)

\* TestRawListenerResponse
ResponsePackets ==
    LET reqPacket  == firstPacket(<<"GET / HTTP/1.1\r\n", crlf>>)
        respPacket == responsePacket(reqPacket, <<"HTTP/1.1 200 OK\r\n", crlf>>)
    IN  [req |-> <<reqPacket>>, resp |-> <<respPacket>>,
         result |-> "GET / HTTP/1.1\r\n\r\n"]

\* TestRawListenerInputResponseByClose; the last packet is the FIN.
ResponseByClosePackets ==
    LET reqPacket  == buildPacket(TRUE, 1, 1, <<"GET / HTTP/1.1\r\n", crlf>>)
        respAck    == reqPacket.seq + reqPacket.len
        respPacket == buildPacket(FALSE, respAck, reqPacket.seq + 1,
                                  <<"HTTP/1.1 200 OK\r\n", connectionClose, crlf, "asd">>)
        finPacket  == [buildPacket(FALSE, respAck, reqPacket.seq + 2, <<>>)
                          EXCEPT !.fin = TRUE]
    IN  [req |-> <<reqPacket>>, resp |-> <<respPacket, finPacket>>,
         result |-> "GET / HTTP/1.1\r\n\r\n"]

\* TestResponseZeroContentLength
ZeroContentLengthPackets ==
    LET reqPacket   == firstPacket(<<"POST /api/setup/install HTTP/1.1\r\n",
                          "Host: localhost:22936\r\n", "User-Agent: curl/7.57.0\r\n",
                          "Accept: */*\r\n", "Content-Length: 0\r\n",
                          "Content-Type: application/x-www-form-urlencoded\r\n", crlf>>)
        respPacket  == responsePacket(reqPacket, <<"HTTP/1.1 200\r\n",
                          "Date: Fri, 11 May 2018 15:09:10 GMT\r\n", "Server: Kestrel\r\n",
                          "Cache-Control: no-cache\r\n", chunkedEncoding, crlf>>)
        respPacket2 == nextPacket(respPacket, lastChunk)
    IN  [req |-> <<reqPacket>>, resp |-> <<respPacket, respPacket2>>,
         result |-> bytesOf(reqPacket.data)]

\* get100ContinuePackets (TestShort100Continue, Test100ContinueWrongOrder)
get100ContinuePackets ==
    LET req1  == firstPacket(<<"POST / HTTP/1.1\r\n", expect100,
                               "Content-Length: 2\r\n", crlf>>)
        resp1 == responsePacket(req1, <<continue100>>)
        req2  == responsePacket(resp1, <<"a">>)
        req3  == nextPacket(req2, <<"b">>)
        resp2 == responsePacket(req3, <<"HTTP/1.1 200 OK\r\n", crlf>>)
    IN  [req |-> <<req1, req2, req3>>, resp |-> <<resp1, resp2>>,
         result |-> "POST / HTTP/1.1\r\nContent-Length: 2\r\n\r\nab"]

\* Test100ContinueWithoutWaiting
WithoutWaitingPackets ==
    LET req1  == firstPacket(<<"POST / HTTP/1.1\r\n", expect100,
                               "Content-Length: 4\r\n", crlf>>)
        req2  == nextPacket(req1, <<"DATA">>)
        resp1 == responsePacket(req1, <<continue100>>)
        resp2 == responsePacket(req2, <<"HTTP/1.1 200 OK\r\n", crlf>>)
    IN  [req |-> <<req1, req2>>, resp |-> <<resp1, resp2>>,
         result |-> "POST / HTTP/1.1\r\nContent-Length: 4\r\n\r\nDATA"]

\* TestRawListenerChunkedWrongOrder
ChunkedWrongOrderPackets ==
    LET reqPacket1  == firstPacket(<<"POST / HTTP/1.1\r\n", chunkedEncoding,
                                     expect100, crlf>>)
        respPacket1 == responsePacket(reqPacket1, <<continue100>>)
        reqPacket2  == responsePacket(respPacket1, <<"1\r\n", "a\r\n">>)
        reqPacket3  == nextPacket(reqPacket2, <<"1\r\n", "b\r\n">>)
        reqPacket4  == nextPacket(reqPacket3, lastChunk)
        respPacket2 == responsePacket(reqPacket4, <<"HTTP/1.1 200 OK\r\n", crlf>>)
    IN  [req |-> <<reqPacket1, reqPacket2, reqPacket3, reqPacket4>>,
         resp |-> <<respPacket1, respPacket2>>,
         result |-> "POST / HTTP/1.1\r\nTransfer-Encoding: chunked\r\n\r\n1\r\na\r\n1\r\nb\r\n0\r\n\r\n"]

RawTests ==
    [TestRawListenerResponse |-> ResponsePackets,
     TestRawListenerInputResponseByClose |-> ResponseByClosePackets,
     TestResponseZeroContentLength |-> ZeroContentLengthPackets,
     Test100ContinueWrongOrder |-> get100ContinuePackets,
     Test100ContinueWithoutWaiting |-> WithoutWaitingPackets,
     TestRawListenerChunkedWrongOrder |-> ChunkedWrongOrderPackets]

seqRange(q) == {q[i] : i \in DOMAIN q}
testPackets(test) == seqRange(RawTests[test].req) \cup seqRange(RawTests[test].resp)

\* The zero UUID of a response that has no request.
zeroUUID == 0

put(f, k, v) == [x \in (DOMAIN f) \cup {k} |-> IF x = k THEN v ELSE f[x]]
drop(f, ks) == [x \in (DOMAIN f) \ ks |-> f[x]]
minOf(S) == CHOOSE x \in S : \A y \in S : x <= y

\* A message is identified by its direction and its ack.
messageID(incoming, ack) == <<incoming, ack>>

\* NewTCPMessage: parts holds the packets keyed by seq.
NewTCPMessage(incoming, ack, uuid) ==
    [incoming |-> incoming, ack |-> ack, uuid |-> uuid, parts |-> <<>>,
     fin |-> FALSE]

firstSeq(m) == minOf(DOMAIN m.parts)

\* The data of the packets, joined in seq order.
RECURSIVE joined(_, _)
joined(parts, seqs) ==
    IF seqs = {} THEN <<>>
    ELSE LET s == minOf(seqs) IN parts[s].data \o joined(parts, seqs \ {s})

\* The number of packets that follow each other from seq on.
RECURSIVE runLength(_, _)
runLength(parts, seq) ==
    IF seq \in DOMAIN parts
    THEN 1 + runLength(parts, seq + parts[seq].len)
    ELSE 0

\* Variant of contiguous that accepts gaps.
contiguousAlways(m) == TRUE

\* No packet of the message is missing between its first and its last.
contiguous(m) == runLength(m.parts, firstSeq(m)) = Cardinality(DOMAIN m.parts)

\* The bytes of the message on the wire.
RECURSIVE wireLength(_, _)
wireLength(parts, seqs) ==
    IF seqs = {} THEN 0
    ELSE LET s == minOf(seqs) IN parts[s].len + wireLength(parts, seqs \ {s})

\* Bytes of the message, joined in seq order.
messageData(m) == joined(m.parts, DOMAIN m.parts)

\* The headers are visible: the data starts with a request or status line
\* and holds the empty line.
headersVisible(data) ==
    /\ data # <<>>
    /\ data[1] \in RequestLines \cup StatusLines
    /\ \E i \in DOMAIN data : data[i] = crlf

emptyLineOffset(data) == minOf({i \in DOMAIN data : data[i] = crlf})
headerOf(data) == SubSeq(data, 1, emptyLineOffset(data))
bodyOf(data) == SubSeq(data, emptyLineOffset(data) + 1, Len(data))
hasHeader(data, h) == \E i \in DOMAIN headerOf(data) : data[i] = h

\* Variant of deleteHeader that keeps the header.
keepHeader(data, h) == data

\* proto.DeleteHeader
deleteHeader(data, h) == SelectSeq(data, LAMBDA line : line # h)

\* The framing committed when the headers are first seen.
framing(data) ==
    LET head == headerOf(data)
        cl   == {i \in DOMAIN head : head[i] \in DOMAIN contentLengths}
    IN  IF data[1] \in BodilessLines THEN "empty"
        ELSE IF cl # {}
        THEN (IF contentLengths[head[minOf(cl)]] = 0 THEN "empty" ELSE "length")
        ELSE IF hasHeader(data, chunkedEncoding) THEN "chunked"
        ELSE IF hasHeader(data, connectionClose) THEN "close"
        ELSE "empty"

contentLength(data) ==
    LET head == headerOf(data)
    IN  contentLengths[head[minOf({i \in DOMAIN head : head[i] \in DOMAIN contentLengths})]]

\* chunked_finished: the body ends with 0\r\n\r\n
chunkedFinished(body) ==
    Len(body) >= 2 /\ SubSeq(body, Len(body) - 1, Len(body)) = lastChunk

\* The framing of the message is close-terminated: it ends with the
\* connection, or at expiry.
closeTerminated(m) ==
    /\ m.parts # <<>>
    /\ contiguous(m)
    /\ headersVisible(messageData(m))
    /\ framing(messageData(m)) = "close"

\* The message is complete: every packet up to its end was received.
complete(m) ==
    /\ m.parts # <<>>
    /\ contiguous(m)
    /\ LET data == messageData(m)
       IN  /\ headersVisible(data)
           /\ LET kind == framing(data)
              IN  \/ kind = "empty"
                  \/ kind = "length" /\ dataLen(bodyOf(data)) = contentLength(data)
                  \/ kind = "chunked" /\ chunkedFinished(bodyOf(data))
                  \/ kind = "close" /\ m.fin

\* Variant of responseAck that counts the bytes left after the edit of the
\* headers.
responseAckOfData(m) == firstSeq(m) + dataLen(messageData(m))

\* UpdateResponseAck: the ack of the response to a request, first seq plus
\* length on the wire.
responseAck(m) == firstSeq(m) + wireLength(m.parts, DOMAIN m.parts)

\* A 1xx reply of the server.
isContinue(packet) ==
    ~packet.incoming /\ packet.data # <<>> /\ packet.data[1] = continue100

\* The listener's tables, as one record.
listenerState ==
    [messages |-> messages, ackAliases |-> ackAliases, seqWithData |-> seqWithData,
     respAliases |-> respAliases, respWithoutReq |-> respWithoutReq,
     messagesChan |-> messagesChan, uuid |-> rawUUID]

\* What is emitted of a message: direction, UUID and bytes, and for the
\* pairing its ack and, of a request, the ack of its response.
emitted(m) ==
    [incoming |-> m.incoming, uuid |-> m.uuid, data |-> bytesOf(messageData(m)),
     ack |-> m.ack, responseAck |-> IF m.incoming THEN responseAck(m) ELSE 0]

\* Variant of deleteMessage that leaves the index entries behind.
forgetMessage(st, id) == [st EXCEPT !.messages = drop(st.messages, {id})]

\* deleteMessage: the message goes, and with it the index entries that
\* point to it.
deleteMessage(st, id) ==
    LET m == st.messages[id]
    IN  [st EXCEPT
           !.messages = drop(st.messages, {id}),
           !.ackAliases = IF m.incoming
                          THEN drop(st.ackAliases,
                                    {a \in DOMAIN st.ackAliases : st.ackAliases[a] = m.ack})
                          ELSE st.ackAliases,
           !.seqWithData = IF m.incoming
                           THEN drop(st.seqWithData,
                                     {s \in DOMAIN st.seqWithData : st.seqWithData[s] = m.ack})
                           ELSE st.seqWithData,
           !.respWithoutReq = IF m.incoming THEN st.respWithoutReq
                              ELSE drop(st.respWithoutReq,
                                        {a \in DOMAIN st.respWithoutReq :
                                            st.respWithoutReq[a] = id})]

\* The packets of message from move to message to, under to's ack; from's
\* ack becomes an alias of to's.
mergeMessage(st, from, to) ==
    LET f     == st.messages[from]
        t     == st.messages[to]
        parts == [s \in (DOMAIN t.parts) \cup (DOMAIN f.parts) |->
                     IF s \in DOMAIN t.parts THEN t.parts[s]
                     ELSE [f.parts[s] EXCEPT !.ack = t.ack]]
    IN  [st EXCEPT
           !.messages = [id \in (DOMAIN st.messages) \ {from} |->
                            IF id = to THEN [t EXCEPT !.parts = parts]
                            ELSE st.messages[id]],
           !.ackAliases = put(st.ackAliases, f.ack, t.ack)]

\* A body chunk sent after the 1xx reply carries a new ack: seqWithData
\* tells the message it continues.
isExpectedData(st, packet) ==
    /\ packet.incoming
    /\ packet.seq \in DOMAIN st.seqWithData
    /\ st.seqWithData[packet.seq] # packet.ack

\* The chunk is filed under the ack of its message, and so are the chunks
\* that arrived before it.
adoptData(st, packet) ==
    LET parent == st.seqWithData[packet.seq]
        from   == messageID(TRUE, packet.ack)
        st1    == IF from \in DOMAIN st.messages
                  THEN mergeMessage(st, from, messageID(TRUE, parent))
                  ELSE [st EXCEPT !.ackAliases = put(st.ackAliases, packet.ack, parent)]
    IN  [st1 EXCEPT !.seqWithData = drop(st1.seqWithData, {packet.seq})]

\* The ack the packet is filed under.
packetAck(st, packet) ==
    IF isExpectedData(st, packet) THEN st.seqWithData[packet.seq]
    ELSE IF packet.incoming /\ packet.ack \in DOMAIN st.ackAliases
    THEN st.ackAliases[packet.ack]
    ELSE packet.ack

\* The message of the packet, created on its first packet: an incoming
\* message gets a fresh UUID, an outgoing one the UUID of the request it
\* acknowledges, or none yet.
findMessage(st, incoming, ack) ==
    LET id == messageID(incoming, ack)
    IN  IF id \in DOMAIN st.messages THEN st
        ELSE IF incoming
        THEN [st EXCEPT
                !.messages = put(st.messages, id, NewTCPMessage(TRUE, ack, st.uuid + 1)),
                !.uuid = st.uuid + 1]
        ELSE IF ack \in DOMAIN st.respAliases
        THEN [st EXCEPT
                !.messages = put(st.messages, id,
                                 NewTCPMessage(FALSE, ack, st.respAliases[ack]))]
        ELSE [st EXCEPT
                !.messages = put(st.messages, id, NewTCPMessage(FALSE, ack, zeroUUID)),
                !.respWithoutReq = put(st.respWithoutReq, ack, id)]

\* AddPacket: a packet with the seq of an earlier one replaces it.
addPacket(st, id, packet) ==
    LET m == st.messages[id]
        p == [packet EXCEPT !.ack = m.ack]
    IN  [st EXCEPT
           !.messages = put(st.messages, id, [m EXCEPT !.parts = put(m.parts, p.seq, p)]),
           !.seqWithData = drop(st.seqWithData,
                                {s \in DOMAIN st.seqWithData :
                                    s = p.seq /\ st.seqWithData[s] = m.ack})]

\* Expect: 100-continue: once the headers of the request are seen the header
\* is removed, and the body, sent after the 1xx reply under a new ack, is
\* awaited at the seq that follows the headers, or adopted if it is there.
handleExpect(st, id) ==
    LET m  == st.messages[id]
        hs == {s \in DOMAIN m.parts :
                 \E i \in DOMAIN m.parts[s].data : m.parts[s].data[i] = expect100}
    IN  IF ~m.incoming \/ hs = {} \/ ~headersVisible(messageData(m)) THEN st
        ELSE LET s      == minOf(hs)
                 next   == s + m.parts[s].len
                 edited == [m EXCEPT !.parts =
                               put(m.parts, s,
                                   [m.parts[s] EXCEPT
                                      !.data = deleteHeader(m.parts[s].data, expect100)])]
                 st1    == [st EXCEPT !.messages = put(st.messages, id, edited)]
                 early  == {o \in DOMAIN st1.messages :
                               o[1] /\ o # id /\ firstSeq(st1.messages[o]) = next}
             IN  IF next \in DOMAIN m.parts THEN st1
                 ELSE IF early # {}
                 THEN mergeMessage(st1, CHOOSE o \in early : TRUE, id)
                 ELSE [st1 EXCEPT !.seqWithData = put(st1.seqWithData, next, m.ack)]

\* Variant of emitOrder that emits the response first.
emitResponseFirst(req, resp) == <<resp, req>>

\* A request and the response that waited for it are emitted in this order.
emitOrder(req, resp) == <<req, resp>>

\* A complete response that has its request is emitted.
dispatchResponse(st, id) ==
    LET m == st.messages[id]
    IN  [deleteMessage(st, id) EXCEPT
           !.messagesChan = Append(st.messagesChan, emitted(m)),
           !.respAliases = drop(st.respAliases, {m.ack})]

\* dispatchMessage: a complete request is emitted and indexed by the ack of
\* its response; a complete response is emitted once its request is, with
\* the UUID of the request.
dispatchMessage(st, id) ==
    LET m == st.messages[id]
    IN  IF ~complete(m) THEN st
        ELSE IF ~m.incoming
        THEN (IF m.uuid # zeroUUID THEN dispatchResponse(st, id) ELSE st)
        ELSE LET rAck == responseAck(m)
                 rid  == messageID(FALSE, rAck)
                 st1  == deleteMessage(st, id)
             IN  IF rAck \in DOMAIN st1.respWithoutReq
                 THEN LET r   == [st1.messages[rid] EXCEPT !.uuid = m.uuid]
                          st2 == [st1 EXCEPT
                                    !.messages = put(st1.messages, rid, r),
                                    !.respWithoutReq = drop(st1.respWithoutReq, {rAck})]
                      IN  IF complete(r)
                          THEN [deleteMessage(st2, rid) EXCEPT
                                  !.messagesChan =
                                      st.messagesChan \o emitOrder(emitted(m), emitted(r))]
                          ELSE [st2 EXCEPT
                                  !.messagesChan = Append(st.messagesChan, emitted(m)),
                                  !.respAliases = put(st.respAliases, rAck, m.uuid)]
                 ELSE [st1 EXCEPT
                         !.messagesChan = Append(st.messagesChan, emitted(m)),
                         !.respAliases = put(st.respAliases, rAck, m.uuid)]

\* A FIN ends the message of its direction and ack.
finishMessage(st, packet) ==
    LET ack == packetAck(st, packet)
        id  == messageID(packet.incoming, ack)
        st1 == findMessage(st, packet.incoming, ack)
    IN  [st1 EXCEPT
           !.messages = put(st1.messages, id, [st1.messages[id] EXCEPT !.fin = TRUE])]

\* processTCPPacket: packets without data and 1xx replies are absorbed; any
\* other packet is filed in its message, which is dispatched if complete.
processTCPPacket(st, packet) ==
    IF packet.fin
    THEN dispatchMessage(finishMessage(st, packet), messageID(packet.incoming, packetAck(st, packet)))
    ELSE IF packet.data = <<>> \/ isContinue(packet) THEN st
    ELSE LET ack == packetAck(st, packet)
             id  == messageID(packet.incoming, ack)
             st1 == IF isExpectedData(st, packet) THEN adoptData(st, packet) ELSE st
             st2 == addPacket(findMessage(st1, packet.incoming, ack), id, packet)
         IN  dispatchMessage(handleExpect(st2, id), id)

\* Variant of emittedAtExpiry that emits every message.
emittedAlways(m) == m.parts # <<>>

\* At expiry a message is emitted if it is complete (a response without
\* request, with the zero UUID) or close-terminated, and discarded otherwise.
emittedAtExpiry(m) == complete(m) \/ closeTerminated(m)

\* The expiry scan: every message is destroyed, with its pairing entries,
\* after it was emitted if it is to be.
RECURSIVE expireMessages(_, _)
expireMessages(st, ids) ==
    IF ids = {} THEN st
    ELSE LET id == CHOOSE x \in ids : \A y \in ids :
                      (x[2] < y[2]) \/ (x[2] = y[2] /\ (x[1] \/ ~y[1]))
             m  == st.messages[id]
             st1 == [deleteMessage(st, id) EXCEPT
                       !.messagesChan = IF emittedAtExpiry(m)
                                        THEN Append(st.messagesChan, emitted(m))
                                        ELSE st.messagesChan]
         IN  expireMessages(st1, ids \ {id})

RawIdle ==
    /\ rawTest = "none"
    /\ packetsChan = {}
    /\ rawArrived = <<>>
    /\ rawLost = 0
    /\ messages = <<>>
    /\ ackAliases = <<>>
    /\ seqWithData = <<>>
    /\ respAliases = <<>>
    /\ respWithoutReq = <<>>
    /\ messagesChan = <<>>
    /\ rawUUID = 0
    /\ rawExpired = FALSE

\* NewListener, and the packets of one test on their way to it.
RawInit ==
    /\ rawTest \in DOMAIN RawTests
    /\ packetsChan = testPackets(rawTest)
    /\ rawArrived = <<>>
    /\ rawLost = 0
    /\ messages = <<>>
    /\ ackAliases = <<>>
    /\ seqWithData = <<>>
    /\ respAliases = <<>>
    /\ respWithoutReq = <<>>
    /\ messagesChan = <<>>
    /\ rawUUID = 0
    /\ rawExpired = FALSE

\* The listener receives one packet of the flow; the packets arrive in any
\* order.
RawReceive(packet) ==
    /\ packet \in packetsChan
    /\ LET st == processTCPPacket(listenerState, packet)
       IN  /\ messages' = st.messages
           /\ ackAliases' = st.ackAliases
           /\ seqWithData' = st.seqWithData
           /\ respAliases' = st.respAliases
           /\ respWithoutReq' = st.respWithoutReq
           /\ messagesChan' = st.messagesChan
           /\ rawUUID' = st.uuid
    /\ packetsChan' = packetsChan \ {packet}
    /\ rawArrived' = Append(rawArrived, packet)
    /\ UNCHANGED <<rawTest, rawLost, rawExpired, notRaw>>

\* The capture loses one packet of the flow.
RawLose(packet) ==
    /\ packet \in packetsChan
    /\ rawLost < MaxLost
    /\ packetsChan' = packetsChan \ {packet}
    /\ rawLost' = rawLost + 1
    /\ UNCHANGED <<rawTest, rawArrived, messages, ackAliases, seqWithData, respAliases,
                   respWithoutReq, messagesChan, rawUUID, rawExpired, notRaw>>

\* The expiry period passes after the last packet of the flow: what is
\* still in progress is emitted or discarded, and the requests that wait
\* for their response are forgotten.
RawExpire ==
    /\ packetsChan = {}
    /\ ~rawExpired
    /\ LET st == expireMessages(listenerState, DOMAIN messages)
       IN  /\ messagesChan' = st.messagesChan
           /\ messages' = st.messages
           /\ ackAliases' = st.ackAliases
           /\ seqWithData' = st.seqWithData
           /\ respWithoutReq' = st.respWithoutReq
    /\ respAliases' = <<>>
    /\ rawExpired' = TRUE
    /\ UNCHANGED <<rawTest, packetsChan, rawArrived, rawLost, rawUUID, notRaw>>

RawNext ==
    \/ \E packet \in packetsChan : RawReceive(packet)
    \/ \E packet \in packetsChan : RawLose(packet)
    \/ RawExpire

\* The emitted requests and responses, by position in the stream.
emittedRequests == {i \in DOMAIN messagesChan : messagesChan[i].incoming}
emittedResponses == {j \in DOMAIN messagesChan : ~messagesChan[j].incoming}
\* Every packet of the flow was received.
allArrived == packetsChan = {} /\ rawLost = 0
\* The first packet received is a packet of the final response.
responseCameFirst ==
    /\ rawArrived # <<>>
    /\ ~rawArrived[1].incoming
    /\ ~isContinue(rawArrived[1])
expectTests == {"Test100ContinueWrongOrder", "Test100ContinueWithoutWaiting",
                "TestRawListenerChunkedWrongOrder"}

\* C7: an emitted response carries the UUID of the request whose first seq
\* plus wire length equals the response's ack, in whatever order the packets
\* of the two arrived; once all packets have arrived every emitted response
\* has such a request.
PairingByAck ==
    /\ \A i \in emittedRequests, j \in emittedResponses :
          messagesChan[i].responseAck = messagesChan[j].ack
             => (messagesChan[j].uuid = messagesChan[i].uuid
                 /\ messagesChan[j].uuid # zeroUUID)
    /\ allArrived =>
          \A j \in emittedResponses : \E i \in emittedRequests :
             messagesChan[i].responseAck = messagesChan[j].ack

\* The response was received first, and the pair was emitted.
PairingByAckWitness ==
    /\ responseCameFirst
    /\ \E i \in emittedRequests, j \in emittedResponses :
          /\ messagesChan[i].responseAck = messagesChan[j].ack
          /\ messagesChan[j].uuid = messagesChan[i].uuid

\* C8: at every point of the emitted stream, a response with a non-zero
\* UUID is preceded by a request with the same UUID.
ResponseAfterRequest ==
    \A j \in emittedResponses :
       messagesChan[j].uuid # zeroUUID
          => \E i \in emittedRequests :
                i < j /\ messagesChan[i].uuid = messagesChan[j].uuid

\* The final response of a 100-continue exchange was received before any
\* packet of the request, and was emitted after the request.
ResponseAfterRequestWitness ==
    /\ rawTest = "Test100ContinueWrongOrder"
    /\ responseCameFirst
    /\ emittedResponses # {}
    /\ \A j \in emittedResponses : messagesChan[j].uuid # zeroUUID

\* C9: in whatever order the packets of a request and its response arrive,
\* exactly one request and one response are emitted, and the bytes of the
\* request are the data of its packets joined in seq order.
OrderInsensitive ==
    allArrived =>
       /\ Cardinality(emittedRequests) = 1
       /\ Cardinality(emittedResponses) = 1
       /\ \A i \in emittedRequests : messagesChan[i].data = RawTests[rawTest].result

\* The chunked request was received last chunk first, headers last.
OrderInsensitiveWitness ==
    /\ rawTest = "TestRawListenerChunkedWrongOrder"
    /\ allArrived
    /\ Len(rawArrived) = 6
    /\ rawArrived[1].data = lastChunk
    /\ rawArrived[6] = RawTests[rawTest].req[1]
    /\ Len(messagesChan) = 2

\* C10: for a request with Expect: 100-continue, in whatever order its
\* packets and the 1xx reply arrive, the emitted request is its headers
\* without the Expect header followed by the whole body, the 1xx reply is
\* never emitted, and the final response is emitted with the UUID of the
\* request.
ExpectContinue ==
    rawTest \in expectTests =>
       /\ \A k \in DOMAIN messagesChan : messagesChan[k].data # continue100
       /\ \A i \in emittedRequests : messagesChan[i].data = RawTests[rawTest].result
       /\ allArrived =>
             \E i \in emittedRequests, j \in emittedResponses :
                /\ messagesChan[j].uuid = messagesChan[i].uuid
                /\ messagesChan[j].data = bytesOf(RawTests[rawTest].resp[2].data)

\* The 1xx reply was received first and the body before the headers.
ExpectContinueWitness ==
    /\ rawTest = "Test100ContinueWrongOrder"
    /\ allArrived
    /\ isContinue(rawArrived[1])
    /\ rawArrived[Len(rawArrived)] = RawTests[rawTest].req[1]
    /\ Len(messagesChan) = 2

\* A request and a response with its UUID were emitted.
pairEmitted ==
    \E i \in emittedRequests, j \in emittedResponses :
       /\ messagesChan[j].uuid = messagesChan[i].uuid
       /\ messagesChan[j].uuid # zeroUUID

\* C11: once a request and its response have been emitted and the expiry
\* period has passed with no further packet, the message table and the
\* indexes ackAliases, seqWithData, respAliases and respWithoutReq are empty,
\* in whatever order the packets arrived.
NoResidue ==
    (pairEmitted /\ rawExpired) =>
       /\ messages = <<>>
       /\ ackAliases = <<>>
       /\ seqWithData = <<>>
       /\ respAliases = <<>>
       /\ respWithoutReq = <<>>

\* The chunked 100-continue exchange, body received before the headers, was
\* emitted and has expired.
NoResidueWitness ==
    /\ rawTest = "TestRawListenerChunkedWrongOrder"
    /\ rawExpired
    /\ pairEmitted
    /\ rawArrived[1].incoming
    /\ rawArrived[1] # RawTests[rawTest].req[1]

ok200 == "HTTP/1.1 200 OK\r\n"
noContent204 == "HTTP/1.1 204 No Content\r\n"
found302 == "HTTP/1.1 302 Found\r\n"
badRequest400 == "HTTP/1.1 400 Bad Request\r\n"
locationHeader == "Location: /b\r\n"
garbageLine == "garbage\r\n"
interimHead == <<continue100, crlf>>

\* strconv.Atoi(string(proto.Status(payload))): the status code of a status
\* line, 0 for anything else.
statusCodes ==
    [line \in {continue100, ok200, noContent204, found302, badRequest400}
        |-> IF line = continue100 THEN 100
            ELSE IF line = ok200 THEN 200
            ELSE IF line = noContent204 THEN 204
            ELSE IF line = found302 THEN 302 ELSE 400]

Status(payload) ==
    IF payload # <<>> /\ payload[1] \in DOMAIN statusCodes
    THEN statusCodes[payload[1]] ELSE 0

\* bytes.Index(buf, proto.EmptyLine) != -1
hasEmptyLine(buf) == \E i \in DOMAIN buf : buf[i] = crlf

\* proto.Header(buf, name) has the value of the header line h: the lines of
\* the head are scanned, up to the empty line when there is one.
Header(buf, h) ==
    LET last == IF hasEmptyLine(buf) THEN emptyLineOffset(buf) ELSE Len(buf)
    IN  \E i \in 1 .. last : buf[i] = h

\* proto.Body(buf): the bytes after the empty line.
Body(buf) == bodyOf(buf)

\* l := proto.Header(buf, "Content-Length"); contentLength, _ = Atoi(l),
\* and -1 when there is no such header.
headerContentLength(buf) ==
    LET head == headerOf(buf)
        cl   == {i \in DOMAIN head : head[i] \in DOMAIN contentLengths}
    IN  IF cl = {} THEN 0 - 1 ELSE contentLengths[head[minOf(cl)]]

\* bytes.HasSuffix(buf, chunkedSuffix)
hasChunkedSuffix(buf) == chunkedFinished(buf)

\* Variant of startsWithHTTP that takes any reply for an HTTP response.
startsWithAnything(buf) == buf # <<>>

\* readBytes >= 4 && string(c.respBuf[:4]) == "HTTP"
startsWithHTTP(buf) == buf # <<>> /\ buf[1] \in DOMAIN statusCodes

\* errorPayload: the 202 template with the code at the status position.
HTTP_UNKNOWN_ERROR == "520"
HTTP_CONNECTION_ERROR == "521"
HTTP_CONNECTION_TIMEOUT == "522"
HTTP_UNREACHABLE == "523"
HTTP_TIMEOUT == "524"

errorPayload(errorCode) ==
    << "HTTP/1.1 " \o errorCode \o " Accepted\r\n",
       "Date: now\r\n",
       "Content-Length: 0\r\n",
       "Content-Type: text/plain; charset=utf-8\r\n",
       crlf >>

\* What an origin may answer to one request: MaxInterim 1xx heads at most,
\* then a final response (or garbage, or nothing).
FinalReplies ==
    [exact      |-> <<ok200, "Content-Length: 2\r\n", crlf, "a", "b">>,
     over       |-> <<ok200, "Content-Length: 2\r\n", crlf, "a", "b", "c">>,
     short      |-> <<ok200, "Content-Length: 2\r\n", crlf, "a">>,
     chunked    |-> <<ok200, chunkedEncoding, crlf, "1\r\na\r\n">> \o lastChunk,
     unframed   |-> <<ok200, crlf, "a">>,
     nocontent  |-> <<noContent204, crlf>>,
     redirect   |-> <<found302, locationHeader, "Content-Length: 0\r\n", crlf>>,
     badrequest |-> <<badRequest400, "Content-Length: 0\r\n", crlf>>,
     garbage    |-> <<garbageLine>>,
     none       |-> <<>>]

\* The final responses an origin sends 1xx responses before.
InterimFinals == {"exact", "chunked", "unframed", "nocontent"}

OriginReplies ==
    {[interims |-> k, final |-> f] :
        k \in 0 .. MaxInterim, f \in DOMAIN FinalReplies}
    \ {[interims |-> k, final |-> f] :
        k \in 1 .. MaxInterim, f \in (DOMAIN FinalReplies) \ InterimFinals}

noReply == [interims |-> 0, final |-> "none"]

RECURSIVE interimHeads(_)
interimHeads(k) == IF k = 0 THEN <<>> ELSE interimHead \o interimHeads(k - 1)

replyTokens(r) == interimHeads(r.interims) \o FinalReplies[r.final]

\* The outcomes of net.DialTimeout and of the TLS handshake in Connect.
DialOutcomes == {"ok", "refused", "timeout", "unreachable", "handshake"}

\* len(c.respBuf) in tokens: a buffer smaller than a response head, and one
\* that holds every response of OriginReplies.
RespBufSizes == {3, 12}

noReturn ==
    [returned |-> FALSE, payload |-> <<>>, err |-> "nil", code |-> "",
     via |-> "none", read |-> <<>>]

noExchange == [reply |-> noReply, fresh |-> FALSE, dialed |-> FALSE, seen |-> 0]

newLoop(buf) == [buf |-> buf, chunked |-> FALSE, length |-> 0 - 1, current |-> 0]

ClientIdle ==
    /\ cFollow = 0
    /\ cBufCap = 0
    /\ cConn = "nil"
    /\ cPipe = <<>>
    /\ cPeerClosed = FALSE
    /\ cPc = "idle"
    /\ cData = ""
    /\ cLoop = newLoop(<<>>)
    /\ cRedirects = 0
    /\ cFollowUps = 0
    /\ cExch = noExchange
    /\ cLast = noReturn

\* NewHTTPClient.  The small buffer is explored without redirects.
ClientInit ==
    /\ cFollow \in 0 .. MaxFollowRedirects
    /\ cBufCap \in RespBufSizes
    /\ cFollow > 0 => \A size \in RespBufSizes : size <= cBufCap
    /\ cConn = "nil"
    /\ cPipe = <<>>
    /\ cPeerClosed = FALSE
    /\ cPc = "idle"
    /\ cData = ""
    /\ cLoop = newLoop(<<>>)
    /\ cRedirects = 0
    /\ cFollowUps = 0
    /\ cExch = noExchange
    /\ cLast = noReturn

\* ---- one iteration of the read loop of send
\* What an iteration decides: "continue" (a 1xx head was soaked up), "loop"
\* (read on) or "break"; disconnected when it called c.Disconnect().
iteration(st, next, err, disconnected) ==
    [st |-> st, next |-> next, err |-> err, disconnected |-> disconnected]

\* Variant of isInterim that takes no status for an interim one.
isInterimNever(status) == FALSE

\* status >= 100 && status < 200
isInterim(status) == status >= 100 /\ status < 200

\* Variant of exceedsLength that never finds the body too long.
exceedsLengthNever(current, length) == FALSE

\* currentContentLength > contentLength
exceedsLength(current, length) == current > length

\* if err != nil { if err == io.EOF { err = nil }; break }
errCheck(st, err) ==
    IF err # "nil"
    THEN iteration(st, "break", IF err = "EOF" THEN "nil" ELSE err, FALSE)
    ELSE iteration(st, "loop", err, FALSE)

\* The checks on the framing that end the loop, then the check of err.
framingCheck(st, err) ==
    IF st.chunked
    THEN IF hasChunkedSuffix(st.buf)
         THEN iteration(st, "break", err, FALSE)
         ELSE errCheck(st, err)
    ELSE IF st.length # 0 - 1
    THEN IF exceedsLength(st.current, st.length)
         THEN iteration(st, "break", err, TRUE)
         ELSE IF st.current = st.length
         THEN iteration(st, "break", err, FALSE)
         ELSE errCheck(st, err)
    ELSE errCheck(st, err)

\* readBytes < len(c.respBuf): the bytes are read into respBuf and, until
\* the framing is known, the head is looked for.
readIntoBuf(st, got, err) ==
    LET buf == st.buf \o got
    IN  IF st.chunked \/ st.length # 0 - 1
        THEN framingCheck([st EXCEPT !.buf = buf,
                                     !.current = @ + dataLen(got)], err)
        ELSE IF ~hasEmptyLine(buf)
        THEN framingCheck([st EXCEPT !.buf = buf], err)
        ELSE IF Header(buf, chunkedEncoding)
        THEN framingCheck([st EXCEPT !.buf = buf, !.chunked = TRUE,
                                     !.current = @ + dataLen(Body(buf))], err)
        ELSE IF isInterim(Status(buf))
        THEN iteration([st EXCEPT !.buf = Body(buf)], "continue", "nil", FALSE)
        ELSE IF Status(buf) \in {204, 304}
        THEN iteration([st EXCEPT !.buf = buf, !.length = 0], "break", err, FALSE)
        ELSE framingCheck([st EXCEPT !.buf = buf,
                                     !.length = headerContentLength(buf),
                                     !.current = @ + dataLen(Body(buf))], err)

\* readBytes >= len(c.respBuf): the bytes are read into currentChunk and
\* only counted.
readIntoChunk(st, got, err) ==
    LET st1 == [st EXCEPT !.current = @ + dataLen(got)]
        errCheck2 == IF err # "nil" THEN iteration(st1, "break", err, FALSE)
                     ELSE iteration(st1, "loop", err, FALSE)
    IN  IF st.chunked
        THEN IF hasChunkedSuffix(got)
             THEN iteration(st1, "break", err, FALSE)
             ELSE errCheck2
        ELSE IF st.length # 0 - 1
        THEN IF exceedsLength(st1.current, st1.length)
             THEN iteration(st1, "break", err, TRUE)
             ELSE IF st1.current = st1.length
             THEN iteration(st1, "break", err, FALSE)
             ELSE errCheck2
        ELSE iteration(st1, "break", err, TRUE)

\* Variant of mayRedirect that ignores the limit.
mayRedirectAlways(follow, count) == TRUE

\* c.config.FollowRedirects > 0 && c.redirectsCount < c.config.FollowRedirects
mayRedirect(follow, count) == follow > 0 /\ count < follow

\* status[0] == '3'
isRedirect(status) == status \div 100 = 3

\* proto.Header(payload, "Location"), the path of the follow-up request.
location(payload) == IF Header(payload, locationHeader) THEN "/b" ELSE ""

\* ---- returning from Send
\* c.Disconnect()
Disconnect ==
    /\ cConn' = "nil"
    /\ cPipe' = <<>>
    /\ cPeerClosed' = FALSE

\* response = errorPayload(code); return -- redirectsCount is left alone.
returnError(code, via, err, read) ==
    /\ cPc' = "returned"
    /\ cLast' = [returned |-> TRUE, payload |-> errorPayload(code), err |-> err,
                 code |-> code, via |-> via, read |-> read]
    /\ UNCHANGED <<cRedirects, cData>>

\* c.redirectsCount = 0; return payload, err
returnPayload(payload, err) ==
    /\ cPc' = "returned"
    /\ cLast' = [returned |-> TRUE, payload |-> payload, err |-> err,
                 code |-> "", via |-> "read", read |-> payload]
    /\ cRedirects' = 0
    /\ UNCHANGED cData

\* Send up to the read loop: the probe of isAlive, Connect, the write of the
\* request, after which the origin answers.
\* A probe reads one token the origin has sent (alive), reads nothing before
\* its deadline (alive), or meets EOF (not alive).
beginExchange(path, buf, pipe, closed, dialed) ==
    /\ cData' = path
    /\ \E wrote \in BOOLEAN :
          IF ~wrote
          THEN /\ Disconnect
               /\ cPc' = "returned"
               /\ cLast' = [returned |-> TRUE,
                            payload |-> errorPayload(HTTP_TIMEOUT),
                            err |-> "write", code |-> HTTP_TIMEOUT,
                            via |-> "write", read |-> <<>>]
               /\ cLoop' = newLoop(buf)
               /\ cExch' = [reply |-> noReply, fresh |-> FALSE, dialed |-> dialed,
                            seen |-> 0]
          ELSE \E reply \in IF closed THEN {noReply} ELSE OriginReplies,
                  close \in IF closed THEN {TRUE} ELSE BOOLEAN :
                  /\ cConn' = "open"
                  /\ cPipe' = pipe \o replyTokens(reply)
                  /\ cPeerClosed' = close
                  /\ cPc' = "read"
                  /\ cLast' = noReturn
                  /\ cLoop' = newLoop(buf)
                  /\ cExch' = [reply |-> reply,
                               fresh |-> buf = <<>> /\ pipe = <<>> /\ ~closed,
                               dialed |-> dialed, seen |-> 0]
    /\ UNCHANGED cRedirects

connectAndSend(path) ==
    \E dial \in DialOutcomes :
        IF dial = "ok"
        THEN beginExchange(path, <<>>, <<>>, FALSE, TRUE)
        ELSE /\ cConn' = IF dial = "handshake" THEN "open" ELSE "nil"
             /\ cPipe' = <<>>
             /\ cPeerClosed' = (dial = "handshake")
             /\ cPc' = "returned"
             /\ cLast' = [returned |-> TRUE,
                          payload |-> errorPayload(HTTP_CONNECTION_ERROR),
                          err |-> dial, code |-> HTTP_CONNECTION_ERROR,
                          via |-> "connect", read |-> <<>>]
             /\ cLoop' = newLoop(<<>>)
             /\ cExch' = [reply |-> noReply, fresh |-> FALSE, dialed |-> FALSE,
                          seen |-> 0]
             /\ UNCHANGED <<cRedirects>>
             /\ cData' = path

Send(path) ==
    IF cConn = "nil"
    THEN connectAndSend(path)
    ELSE \/ /\ cPipe = <<>> /\ cPeerClosed
            /\ connectAndSend(path)
         \/ /\ cPipe # <<>>
            /\ beginExchange(path, <<Head(cPipe)>>, Tail(cPipe), cPeerClosed, FALSE)
         \/ /\ ~(cPipe = <<>> /\ cPeerClosed)
            /\ beginExchange(path, <<>>, cPipe, cPeerClosed, FALSE)

\* A top-level Send, by a worker of the HTTP output.
ClientSend ==
    /\ cPc = "idle"
    /\ Len(cPipe) <= MaxStale
    /\ cFollowUps' = 0
    /\ Send("/a")
    /\ UNCHANGED <<cFollow, cBufCap, notClient>>

\* return c.Send(redirectPayload)
ClientFollowUp ==
    /\ cPc = "redirect"
    /\ cFollowUps <= MaxFollowRedirects
    /\ cFollowUps' = cFollowUps + 1
    /\ Send(cData)
    /\ UNCHANGED <<cFollow, cBufCap, notClient>>

\* What follows the read loop.
afterLoop(it) ==
    LET buf == it.st.buf
    IN  IF it.err # "nil" /\ buf = <<>>
        THEN /\ returnError(HTTP_TIMEOUT, "read", it.err, buf)
             /\ Disconnect
        ELSE IF ~startsWithHTTP(buf)
        THEN /\ returnError(HTTP_UNKNOWN_ERROR, "read", it.err, buf)
             /\ Disconnect
        ELSE IF mayRedirect(cFollow, cRedirects) /\ isRedirect(Status(buf))
        THEN /\ cRedirects' = cRedirects + 1
             /\ cData' = location(buf)
             /\ cPc' = "redirect"
             /\ cLast' = noReturn
             /\ IF it.disconnected THEN Disconnect
                ELSE /\ cConn' = cConn
                     /\ cPeerClosed' = cPeerClosed
        ELSE /\ returnPayload(buf, it.err)
             /\ IF it.disconnected \/ Status(buf) = 400 THEN Disconnect
                ELSE /\ cConn' = cConn
                     /\ cPeerClosed' = cPeerClosed

\* One c.conn.Read of the loop and what the iteration makes of it: n tokens
\* and no error, or no token and a timeout, or EOF once the origin has
\* closed and everything it sent was read.
ClientRead ==
    /\ cPc = "read"
    /\ \E n \in 0 .. Len(cPipe) :
          LET inBuf == Len(cLoop.buf) < cBufCap
              got   == SubSeq(cPipe, 1, n)
              rest  == SubSeq(cPipe, n + 1, Len(cPipe))
              err   == IF n > 0 THEN "nil"
                       ELSE IF cPipe = <<>> /\ cPeerClosed THEN "EOF"
                       ELSE "timeout"
              it    == IF inBuf THEN readIntoBuf(cLoop, got, err)
                       ELSE readIntoChunk(cLoop, got, err)
          IN  /\ inBuf => n <= cBufCap - Len(cLoop.buf)
              /\ IF it.next = "break"
                 THEN /\ afterLoop(it)
                      /\ cPipe' = IF cConn' = "nil" THEN <<>> ELSE rest
                 ELSE /\ cPipe' = rest
                      /\ UNCHANGED <<cConn, cPeerClosed, cPc, cData, cRedirects,
                                     cLast>>
              /\ cLoop' = IF cPc' = "redirect" THEN newLoop(<<>>) ELSE it.st
              /\ cExch' = IF cPc' = "redirect" THEN noExchange
                          ELSE [cExch EXCEPT !.seen = @ + n]
    /\ UNCHANGED <<cFollow, cBufCap, cFollowUps, notClient>>

\* The caller of Send (a worker of the HTTP output) has taken the response.
ClientDone ==
    /\ cPc = "returned"
    /\ cPc' = "idle"
    /\ cLast' = noReturn
    /\ cExch' = noExchange
    /\ cLoop' = newLoop(<<>>)
    /\ cFollowUps' = 0
    /\ UNCHANGED <<cFollow, cBufCap, cConn, cPipe, cPeerClosed, cData,
                   cRedirects, notClient>>

ClientNext ==
    \/ ClientSend
    \/ ClientFollowUp
    \/ ClientRead
    \/ ClientDone

\* ---- claims on the replay client
\* The last Send returned from its read loop after a clean start (nothing of
\* an earlier exchange was on the socket), and the origin's reply f was
\* preceded by k 1xx heads of which the client has read past.
answered(f) ==
    /\ cPc = "returned"
    /\ cLast.via = "read"
    /\ cExch.fresh
    /\ cExch.reply.final = f
    /\ cExch.seen > 2 * cExch.reply.interims

HTTPFinals == (DOMAIN FinalReplies) \ {"garbage", "none"}

\* C15: whatever the number of 1xx responses the origin sends before its
\* final response, the way the bytes are split across reads and the framing
\* of the final response, once the status line of the final response was
\* read the bytes Send returns start with that status line and hold no 1xx
\* head.
InterimAbsorbed ==
    \A f \in HTTPFinals :
        answered(f) =>
            /\ cLast.code = ""
            /\ cLast.payload # <<>>
            /\ cLast.payload[1] = FinalReplies[f][1]
            /\ \A i \in DOMAIN cLast.payload : cLast.payload[i] # continue100

\* Two 1xx heads and a chunked response that arrived together: the heads
\* were soaked up one read deadline after the other.
InterimAbsorbedWitness ==
    /\ answered("chunked")
    /\ cExch.reply.interims = MaxInterim
    /\ cLast.err = "timeout"
    /\ cLast.payload = FinalReplies["chunked"]

\* The first tokens of q, n at most.
firstTokens(q, n) == SubSeq(q, 1, IF n < Len(q) THEN n ELSE Len(q))

ConnectErrorCodes ==
    (cPc = "returned" /\ cLast.via = "connect") =>
        /\ cLast.err = "timeout" => cLast.code = HTTP_CONNECTION_TIMEOUT
        /\ cLast.err = "unreachable" => cLast.code = HTTP_UNREACHABLE
        /\ cLast.err \in {"refused", "handshake"}
              => cLast.code = HTTP_CONNECTION_ERROR

\* What a Send in progress still has to do: the follow-up requests it may
\* still issue, then the request it has decided to send, then the tokens it
\* may still read or soak up.  0 once it has returned.
sendMeasure ==
    IF cPc \in {"idle", "returned"} THEN 0
    ELSE 1 + 1000 * (cFollow - cRedirects)
           + (IF cPc = "redirect" THEN 100 ELSE 0)
           + 2 * Len(cPipe) + Len(cLoop.buf)

\* C18: one top-level Send issues at most FollowRedirects follow-up
\* requests, and it returns, since every step it takes (a read of the loop
\* or a follow-up request) lowers sendMeasure; with FollowRedirects = 0 it
\* issues no follow-up and a 3xx response is returned as it was read.
RedirectsBounded ==
    /\ [](cFollowUps <= cFollow /\ cRedirects <= cFollow)
    /\ []((cFollow = 0 /\ answered("redirect")
              /\ cExch.seen = Len(FinalReplies["redirect"]))
            => /\ cLast.code = ""
               /\ cLast.payload = firstTokens(FinalReplies["redirect"], cBufCap))
    /\ [][cPc' = "redirect" => cRedirects' = cRedirects + 1 /\ cRedirects < cFollow]_vars
    /\ [][(cPc = "read" \/ cPc = "redirect")
             => (sendMeasure' < sendMeasure)]_vars

\* The limit was used up: the last 3xx response is what Send returns.
RedirectsBoundedWitness ==
    /\ cFollow = MaxFollowRedirects
    /\ cFollowUps = cFollow
    /\ answered("redirect")
    /\ cLast.payload = FinalReplies["redirect"]

\* The final responses that carry Content-Length and are not chunked.
LengthFinals == {"exact", "over", "short", "redirect", "badrequest"}

\* The last Send returned a response framed by Content-Length, whose head it
\* has read, after a clean start.
lengthFramed ==
    /\ \E f \in LengthFinals : answered(f)
    /\ cLoop.length # 0 - 1

\* What the client has read of the final response.
finalRead ==
    SubSeq(replyTokens(cExch.reply), 2 * cExch.reply.interims + 1, cExch.seen)

\* While the loop reads on, fewer body bytes than Content-Length were
\* received; a Send that returns with fewer met EOF or the read deadline.
stopsAtLength ==
    /\ (cPc = "read" /\ cLoop.length # 0 - 1) => cLoop.current < cLoop.length
    /\ (lengthFramed /\ cLoop.current < cLoop.length)
          => \/ cLast.err = "timeout"
             \/ cPipe = <<>> /\ cPeerClosed

UnframedDisconnects ==
    (answered("unframed") /\ hasEmptyLine(finalRead)) =>
        /\ cLast.code = ""
        /\ cLast.payload = firstTokens(finalRead, cBufCap)
        /\ \/ cConn = "nil"
           \/ cPipe = <<>> /\ cPeerClosed

\* Send has returned errorPayload(code) in place of a response.
syntheticReturn ==
    /\ cPc = "returned"
    /\ cLast.code # ""

\* C39: whenever Send returns a synthetic error payload (a connect failure,
\* a failed TLS handshake or proxy CONNECT included, a write failure, a read
\* timeout, a reply that is not HTTP), the client holds no socket: conn is
\* nil.
SocketReleasedOnError ==
    syntheticReturn => cConn = "nil"

\* C40: whenever a top-level Send has returned, by a final response, by the
\* redirect limit or by a synthetic error payload in the middle of a redirect
\* chain, redirectsCount is 0.
RedirectCountReset ==
    cPc = "returned" => cRedirects = 0

(***************************************************************************)
(*              File sink: indexed file names (src/http_client.go)         *)
(*                                                                         *)
(* A name is a sequence of bytes: 43 "+", 45 "-", 46 ".", 47 "/",          *)
(* 48 .. 57 the digits, 95 "_", 97 "a", 98 "b".                            *)
(***************************************************************************)
maxOf(S) == CHOOSE x \in S : \A y \in S : y <= x

\* filepath.Ext: the suffix beginning at the final dot of the final element
Ext(path) ==
    LET dots == {i \in DOMAIN path :
                    path[i] = 46 /\ \A k \in i .. Len(path) : path[k] # 47}
    IN  IF dots = {} THEN <<>> ELSE SubSeq(path, maxOf(dots), Len(path))

\* strings.TrimSuffix
TrimSuffix(s, suffix) ==
    IF Len(suffix) <= Len(s)
          /\ SubSeq(s, Len(s) - Len(suffix) + 1, Len(s)) = suffix
    THEN SubSeq(s, 1, Len(s) - Len(suffix))
    ELSE s

\* strings.LastIndex(s, "_"), an offset from 0, or -1
LastIndex(s) ==
    LET at == {i \in DOMAIN s : s[i] = 95}
    IN  IF at = {} THEN 0 - 1 ELSE maxOf(at) - 1

\* strings.Index(s, "_"): the first underscore instead of the last
FirstIndex(s) ==
    LET at == {i \in DOMAIN s : s[i] = 95}
    IN  IF at = {} THEN 0 - 1 ELSE minOf(at) - 1

isDigit(b) == b >= 48 /\ b <= 57

RECURSIVE digitsValue(_)
digitsValue(d) ==
    IF d = <<>> THEN 0 ELSE digitsValue(butLast(d)) * 10 + (d[Len(d)] - 48)

\* strconv.Atoi: an optional sign and at least one decimal digit; the names
\* explored are too short for a value out of range.
Atoi(s) ==
    LET signed == s # <<>> /\ s[1] \in {43, 45}
        digits == IF signed THEN Tail(s) ELSE s
    IN  IF digits = <<>> \/ \E i \in DOMAIN digits : ~isDigit(digits[i])
        THEN [err |-> TRUE, val |-> 0]
        ELSE [err |-> FALSE,
              val |-> IF signed /\ s[1] = 45 THEN 0 - digitsValue(digits)
                      ELSE digitsValue(digits)]

RECURSIVE digitsOf(_)
digitsOf(n) ==
    IF n < 10 THEN <<48 + n>> ELSE Append(digitsOf(n \div 10), 48 + (n % 10))

\* strconv.Itoa
Itoa(n) == IF n < 0 THEN <<45>> \o digitsOf(0 - n) ELSE digitsOf(n)

getFileIndex(name) ==
    LET ext        == Ext(name)
        withoutExt == TrimSuffix(name, ext)
        idx        == LastIndex(withoutExt)
        i          == Atoi(SubSeq(withoutExt, idx + 2, Len(withoutExt)))
    IN  IF idx # 0 - 1 /\ ~i.err THEN i.val ELSE 0 - 1

\* setFileIndex without the removal of an index the name already has
setFileIndexAppend(name, idx) ==
    TrimSuffix(name, Ext(name)) \o <<95>> \o Itoa(idx) \o Ext(name)

setFileIndex(name, idx) ==
    LET idxS       == Itoa(idx)
        ext        == Ext(name)
        withoutExt == TrimSuffix(name, ext)
        i          == LastIndex(withoutExt)
        stripped   == IF i # 0 - 1
                         /\ ~Atoi(SubSeq(withoutExt, i + 2, Len(withoutExt))).err
                      THEN SubSeq(withoutExt, 1, i)
                      ELSE withoutExt
    IN  stripped \o <<95>> \o idxS \o ext

withoutIndex(s) ==
    LET i == LastIndex(s) IN IF i # 0 - 1 THEN SubSeq(s, 1, i) ELSE s

\* The order < of Go strings: bytewise, a proper prefix first.
stringLess(a, b) ==
    \E k \in 0 .. (IF Len(a) < Len(b) THEN Len(a) ELSE Len(b)) :
        /\ \A i \in 1 .. k : a[i] = b[i]
        /\ k < Len(b)
        /\ IF k = Len(a) THEN TRUE ELSE a[k + 1] < b[k + 1]

\* sortByFileIndex.Less, on positions from 1
Less(s, i, j) ==
    IF withoutIndex(s[i]) = withoutIndex(s[j])
    THEN getFileIndex(s[i]) < getFileIndex(s[j])
    ELSE stringLess(s[i], s[j])

Swap(s, i, j) == [s EXCEPT ![i] = s[j], ![j] = s[i]]

\* sort.Sort on fewer than 12 elements is an insertion sort: element i moves
\* left while it is Less than its left neighbour.
RECURSIVE moveLeft(_, _)
moveLeft(s, j) ==
    IF j > 1 /\ Less(s, j, j - 1) THEN moveLeft(Swap(s, j, j - 1), j - 1) ELSE s

RECURSIVE insertionSort(_, _)
insertionSort(s, i) ==
    IF i > Len(s) THEN s ELSE insertionSort(moveLeft(s, i), i + 1)

sortByFileIndex(matches) == insertionSort(matches, 2)

\* The names of a set in the order of sort.Strings, as filepath.Glob
\* returns them.
RECURSIVE sortStrings(_)
sortStrings(S) ==
    IF S = {} THEN <<>>
    ELSE LET first == CHOOSE a \in S : \A b \in S \ {a} : stringLess(a, b)
         IN  <<first>> \o sortStrings(S \ {first})

\* The paths explored: every name of at most MaxNameLen bytes of NameBytes.
NameBytes == {45, 46, 47, 49, 95, 97}

RECURSIVE namesUpTo(_)
namesUpTo(n) ==
    IF n = 0 THEN {<<>>}
    ELSE LET shorter == namesUpTo(n - 1)
         IN  shorter \cup {Append(p, b) : p \in shorter, b \in NameBytes}

NamePaths == namesUpTo(MaxNameLen)

\* The indexes given to siblings.
FileIndexes == {0, 2, 10}

NamesIdle ==
    /\ nmPath = <<>>
    /\ nmMatches = <<>>
    /\ nmSorted = <<>>

NamesInit ==
    /\ nmPath \in NamePaths
    /\ nmMatches = <<>>
    /\ nmSorted = <<>>

siblingNames == {nmMatches[i].name : i \in DOMAIN nmMatches}

\* setFileIndex(path, idx) names a new sibling of the path.
NameSetIndex(idx) ==
    /\ Len(nmMatches) < MaxSiblings
    /\ \A i \in DOMAIN nmMatches : nmMatches[i].idx # idx
    /\ nmMatches' = Append(nmMatches, [idx |-> idx, name |-> setFileIndex(nmPath, idx)])
    /\ nmSorted' = <<>>
    /\ UNCHANGED <<nmPath, notNames>>

\* filename: sort.Sort(sortByFileIndex(matches)) on the result of Glob
NameSort ==
    /\ nmMatches # <<>>
    /\ nmSorted = <<>>
    /\ nmSorted' = sortByFileIndex(sortStrings(siblingNames))
    /\ UNCHANGED <<nmPath, nmMatches, notNames>>

NamesNext ==
    \/ \E idx \in FileIndexes : NameSetIndex(idx)
    \/ NameSort

\* A numeral as strconv reads it: an optional sign and decimal digits.
numeral(s) ==
    \E k \in 0 .. 1 :
        /\ Len(s) > k
        /\ k = 1 => s[1] \in {43, 45}
        /\ \A i \in (k + 1) .. Len(s) : isDigit(s[i])

\* The offset of the "_" of a suffix _N that ends the name before its
\* extension, or -1.
indexSuffixAt(p) ==
    LET w  == SubSeq(p, 1, Len(p) - Len(Ext(p)))
        at == {i \in DOMAIN w :
                  /\ w[i] = 95
                  /\ \A k \in (i + 1) .. Len(w) : w[k] # 95
                  /\ numeral(SubSeq(w, i + 1, Len(w)))}
    IN  IF at = {} THEN 0 - 1 ELSE maxOf(at) - 1

\* The name without its extension and without its index suffix.
stem(p) ==
    LET w == SubSeq(p, 1, Len(p) - Len(Ext(p)))
    IN  IF indexSuffixAt(p) = 0 - 1 THEN w ELSE SubSeq(w, 1, indexSuffixAt(p))

\* C29: getFileIndex(setFileIndex(p, n)) = n; setFileIndex keeps the
\* extension of p and its name without the index; setting an index twice is
\* setting the second one; and getFileIndex is -1 for a name without a
\* numeric _N suffix.
IndexedNaming ==
    /\ \A i \in DOMAIN nmMatches :
          LET q == nmMatches[i].name
          IN  /\ getFileIndex(q) = nmMatches[i].idx
              /\ Ext(q) = Ext(nmPath)
              /\ stem(q) = stem(nmPath)
              /\ q = stem(nmPath) \o <<95>> \o Itoa(nmMatches[i].idx) \o Ext(nmPath)
              /\ \A n \in 0 .. MaxFileIndex :
                    /\ setFileIndex(q, n) = setFileIndex(nmPath, n)
                    /\ getFileIndex(setFileIndex(q, n)) = n
    /\ indexSuffixAt(nmPath) = 0 - 1 => getFileIndex(nmPath) = 0 - 1

IndexedNamingWitness ==
    /\ Len(nmMatches) >= 2
    /\ indexSuffixAt(nmPath) # 0 - 1
    /\ Ext(nmPath) # <<>>

lessName(a, b) == Less(<<a, b>>, 1, 2)
indexOfSibling(name) ==
    (CHOOSE i \in DOMAIN nmMatches : nmMatches[i].name = name)

\* C30: on the siblings of a path Less is irreflexive and transitive, and
\* after sorting the siblings stand in ascending order of their index, the
\* one with the highest index last.
SiblingOrder ==
    /\ \A a \in siblingNames : ~lessName(a, a)
    /\ \A a, b, c \in siblingNames :
          (lessName(a, b) /\ lessName(b, c)) => lessName(a, c)
    /\ nmSorted # <<>> =>
          /\ Len(nmSorted) = Len(nmMatches)
          /\ \A i, j \in DOMAIN nmSorted :
                i < j => nmMatches[indexOfSibling(nmSorted[i])].idx
                            < nmMatches[indexOfSibling(nmSorted[j])].idx

(***************************************************************************)
(*                  File sink (src/http_client.go, FileOutput)             *)
(*                                                                         *)
(* A file holds the numbers of the Writes whose payload (and separator)    *)
(* it contains, in order.  Sizes are counted in units: a payload has 1 or  *)
(* 2, the separator 1.  Templates ending in .gz are not explored.          *)
(***************************************************************************)
\* strings.Replace(s, old, new, -1)
RECURSIVE Replace(_, _, _)
Replace(s, old, new) ==
    IF Len(s) < Len(old) THEN s
    ELSE IF SubSeq(s, 1, Len(old)) = old
         THEN new \o Replace(SubSeq(s, Len(old) + 1, Len(s)), old, new)
         ELSE <<s[1]>> \o Replace(Tail(s), old, new)

\* strings.Contains
Contains(s, sub) ==
    \E i \in 1 .. (Len(s) - Len(sub) + 1) : SubSeq(s, i, i + Len(sub) - 1) = sub

\* The tokens "%S", "%r" and "%t"; the other time tokens behave as %S does.
pctS == <<37, 83>>
pctR == <<37, 114>>
pctT == <<37, 116>>

\* time.Now().Format("05")
formatSeconds(now) == <<48 + (now \div 10), 48 + (now % 10)>>

\* filename: the loop over dateFileNameFuncs (the replaced values hold no
\* "%", so the order of the map does not matter)
resolve(template, o, now) ==
    Replace(Replace(Replace(template, pctS, formatSeconds(now)),
                    pctR, o.currentID),
            pctT, o.payloadType)

\* filepath.Glob(withoutExt + "*" + ext): the names on disk that begin with
\* withoutExt and end with ext, the star matching no separator, sorted.
Glob(disk, withoutExt, ext) ==
    sortStrings({n \in DOMAIN disk :
        /\ Len(n) >= Len(withoutExt) + Len(ext)
        /\ SubSeq(n, 1, Len(withoutExt)) = withoutExt
        /\ SubSeq(n, Len(n) - Len(ext) + 1, Len(n)) = ext
        /\ \A i \in (Len(withoutExt) + 1) .. (Len(n) - Len(ext)) : n[i] # 47})

\* fileIndex of filename: the index of the last sibling, one more for the
\* next chunk; 0 when the last sibling has no index
nextIndex(idx, nextChunk) ==
    IF idx # 0 - 1 THEN (IF nextChunk THEN idx + 1 ELSE idx) ELSE 0

\* filename, once the siblings are globbed and sorted
indexedName(path, matches, nextChunk) ==
    IF matches = <<>> THEN setFileIndex(path, 0)
    ELSE setFileIndex(matches[Len(matches)],
                      nextIndex(getFileIndex(matches[Len(matches)]), nextChunk))

\* filename, once the template is resolved
resolvedName(cfg, o, disk, path) ==
    IF cfg.append THEN path
    ELSE indexedName(path,
                     sortByFileIndex(Glob(disk, TrimSuffix(path, Ext(path)), Ext(path))),
                     \/ o.currentName = <<>>
                     \/ (cfg.queueLimit > 0 /\ o.queueLength >= cfg.queueLimit)
                     \/ (cfg.sizeLimit > 0 /\ o.chunkSize >= cfg.sizeLimit))

filename(cfg, o, disk, now) ==
    resolvedName(cfg, o, disk, resolve(cfg.pathTemplate, o, now))

\* filepath.Clean, for a path of one element: "" becomes "."
Clean(path) == IF path = <<>> THEN <<46>> ELSE path

updateName(cfg, o, disk, now) ==
    [o EXCEPT !.currentName = Clean(filename(cfg, o, disk, now))]

\* len(data) + len(payloadSeparator); sizes are counted in units of which
\* the separator takes one
wireSize(size) == size + 1

RECURSIVE sizeOf(_, _)
sizeOf(content, log) ==
    IF content = <<>> THEN 0
    ELSE wireSize(log[Head(content)].size) + sizeOf(Tail(content), log)

\* bufio.Writer.Flush: what the writer holds goes to the open file
Flush(o, disk) ==
    IF o.open THEN [disk EXCEPT ![o.file] = @ \o o.writer] ELSE disk

\* flush: nothing without a file; otherwise Flush, and chunkSize becomes the
\* size Stat reports (Stat fails on a closed file and chunkSize stays).
flush(o, disk, log) ==
    IF o.file = <<>> THEN [o |-> o, disk |-> disk]
    ELSE [o |-> [o EXCEPT !.writer = <<>>,
                          !.chunkSize = IF o.open
                                        THEN sizeOf(Flush(o, disk)[o.file], log)
                                        ELSE @],
          disk |-> Flush(o, disk)]

\* closeLocked: Flush and Close of the file if there is one; closed = true
closeLocked(o, disk) ==
    [o |-> [o EXCEPT !.writer = IF o.file = <<>> THEN @ ELSE <<>>,
                     !.open = FALSE,
                     !.closed = TRUE],
     disk |-> IF o.file = <<>> THEN disk ELSE Flush(o, disk)]

\* A Write that reaches the limit returns an error.
reachesLimit(total, max) == max > 0 /\ total >= max

FilePayloads ==
    {[kind |-> 49, uuid |-> <<97>>, size |-> 1],
     [kind |-> 50, uuid |-> <<98>>, size |-> 2]}

\* "a", "a_1", "%r", "a%t", "a%S"
FileTemplates ==
    {<<97>>, <<97, 95, 49>>, pctR, <<97>> \o pctT, <<97>> \o pctS}

\* At most one of the three limits is set in a configuration; queueLimit and
\* sizeLimit, which filename reads only when append is false, are set only
\* then.
FileConfigs ==
    {c \in [pathTemplate : FileTemplates, append : BOOLEAN, queueLimit : {0, 1, 2},
            sizeLimit : {0, 1}, outputFileMaxSize : {0, 4}] :
        /\ c.queueLimit > 0 => (c.sizeLimit = 0 /\ c.outputFileMaxSize = 0)
        /\ c.sizeLimit > 0 => c.outputFileMaxSize = 0
        /\ c.append => (c.queueLimit = 0 /\ c.sizeLimit = 0)}

noOutput ==
    [currentName |-> <<>>, file |-> <<>>, open |-> FALSE, queueLength |-> 0,
     chunkSize |-> 0, currentID |-> <<>>, payloadType |-> <<>>,
     closed |-> FALSE, totalFileSize |-> 0, writer |-> <<>>]

FileIdle ==
    /\ fCfg = [pathTemplate |-> <<>>, append |-> FALSE, queueLimit |-> 0,
               sizeLimit |-> 0, outputFileMaxSize |-> 0]
    /\ fOut = noOutput
    /\ fDisk = <<>>
    /\ fOld = <<>>
    /\ fNow = 0
    /\ fTimer = "stopped"
    /\ fLog = <<>>
    /\ fClosedFiles = <<>>
    /\ fCloseCalled = FALSE

\* The files an earlier run of the sink has left for the path "a": none, or
\* the siblings "a_0" .. "a_m"; each holds one payload, written as 0.
siblingsUpTo(m) == [n \in {<<97, 95, 48 + i>> : i \in 0 .. m} |-> <<0>>]

OldFiles(cfg) ==
    IF cfg.pathTemplate = <<97>> /\ ~cfg.append
    THEN {siblingsUpTo(m) : m \in (0 - 1) .. MaxOldIndex}
    ELSE {<<>>}

\* NewFileOutput: updateName, and the periodic task starts with its Sleep.
FileInit ==
    /\ fCfg \in FileConfigs
    /\ fOld \in OldFiles(fCfg)
    /\ fDisk = fOld
    /\ fNow = 0
    /\ fOut = updateName(fCfg, noOutput, fDisk, fNow)
    /\ fTimer = "sleep"
    /\ fLog = <<>>
    /\ fClosedFiles = <<>>
    /\ fCloseCalled = FALSE

\* What a close of the open file leaves behind: its name, its size and the
\* size of the last message written to it.
closedFile(o, disk, log) ==
    LET content == Flush(o, disk)[o.file]
    IN  [name |-> o.file, size |-> sizeOf(content, log),
         last |-> IF content = <<>> THEN 0
                  ELSE wireSize(log[content[Len(content)]].size)]

\* Write, lines 722-728: the kind and the UUID of the payload are kept when
\* o.requestPerFile is set, which NewFileOutput does for a template with %r
payloadMeta(cfg, o, p) ==
    IF Contains(cfg.pathTemplate, pctR)
    THEN [o EXCEPT !.currentID = p.uuid, !.payloadType = <<p.kind>>]
    ELSE o

\* Write, line 734: o.file == nil || o.currentName != o.file.Name()
reopens(o) == o.file = <<>> \/ o.currentName # o.file

\* Write, lines 737-750, after closeLocked: OpenFile with
\* os.O_WRONLY|os.O_CREATE|os.O_TRUNC, a new writer, queueLength = 0
OpenFile(c, name) ==
    [o |-> [c.o EXCEPT !.file = name, !.open = TRUE, !.writer = <<>>,
                       !.queueLength = 0],
     disk |-> put(c.disk, name, <<>>)]

\* Write, lines 734-751
openCurrent(o, disk) ==
    IF reopens(o) THEN OpenFile(closeLocked(o, disk), o.currentName)
    ELSE [o |-> o, disk |-> disk]

\* Write, lines 753-763, on the output o2 as updateName left it and with
\* the file f now open.  The number of the Write is what goes into the file.
writeOpen(p, o2, f) ==
    /\ fOut' = [f.o EXCEPT !.writer = Append(@, Len(fLog) + 1),
                            !.totalFileSize = @ + wireSize(p.size),
                            !.queueLength = @ + 1]
    /\ fDisk' = f.disk
    /\ fLog' = Append(fLog,
                      [name |-> f.o.file, kind |-> p.kind, uuid |-> p.uuid,
                       size |-> p.size, now |-> fNow,
                       err |-> reachesLimit(f.o.totalFileSize + wireSize(p.size),
                                            fCfg.outputFileMaxSize)])
    /\ fClosedFiles' = IF reopens(o2) /\ o2.file # <<>> /\ o2.open
                       THEN Append(fClosedFiles, closedFile(o2, fDisk, fLog))
                       ELSE fClosedFiles

writeNamed(p, o2) == writeOpen(p, o2, openCurrent(o2, fDisk))

\* Write
FileWrite(p) ==
    /\ ~fCloseCalled
    /\ Len(fLog) < MaxFileWrites
    /\ writeNamed(p, updateName(fCfg, payloadMeta(fCfg, fOut, p), fDisk, fNow))
    /\ UNCHANGED <<fCfg, fOld, fNow, fTimer, fCloseCalled, notFile>>

\* Close
FileClose ==
    /\ ~fCloseCalled
    /\ fCloseCalled' = TRUE
    /\ fOut' = closeLocked(fOut, fDisk).o
    /\ fDisk' = closeLocked(fOut, fDisk).disk
    /\ fClosedFiles' = IF fOut.file # <<>> /\ fOut.open
                       THEN Append(fClosedFiles, closedFile(fOut, fDisk, fLog))
                       ELSE fClosedFiles
    /\ UNCHANGED <<fCfg, fOld, fNow, fTimer, fLog, notFile>>

\* The periodic task: time.Sleep(flushInterval) is over; if o.IsClosed() break
FileTimerWake ==
    /\ fTimer = "sleep"
    /\ fTimer' = IF fOut.closed THEN "stopped" ELSE "awake"
    /\ UNCHANGED <<fCfg, fOld, fOut, fDisk, fNow, fLog, fClosedFiles, fCloseCalled, notFile>>

flushed(f) == fOut' = f.o /\ fDisk' = f.disk

\* The periodic task: o.updateName(); o.flush(); and Sleep again
FileTimerFlush ==
    /\ fTimer = "awake"
    /\ fTimer' = "sleep"
    /\ flushed(flush(updateName(fCfg, fOut, fDisk, fNow), fDisk, fLog))
    /\ UNCHANGED <<fCfg, fOld, fNow, fLog, fClosedFiles, fCloseCalled, notFile>>

\* A second passes.
FileTick ==
    /\ fNow < MaxFileTicks
    /\ fNow' = fNow + 1
    /\ UNCHANGED <<fCfg, fOld, fOut, fDisk, fTimer, fLog, fClosedFiles, fCloseCalled, notFile>>

FileNext ==
    \/ \E p \in FilePayloads : FileWrite(p)
    \/ FileClose
    \/ FileTimerWake
    \/ FileTimerFlush
    \/ FileTick

\* The template holds no token.
constantTemplate == ~Contains(fCfg.pathTemplate, <<37>>)

writesTo(name) == {k \in DOMAIN fLog : fLog[k].name = name}

\* C23: with append = false, queue_limit = N > 0, a constant template and no
\* sibling on disk at the start, the k-th Write (from 0) goes to the file
\* with index floor(k / N), and no file receives more than N payloads.
QueueLimitRotation ==
    (~fCfg.append /\ fCfg.queueLimit > 0 /\ fCfg.sizeLimit = 0 /\ constantTemplate
        /\ fOld = <<>>)
    => /\ \A k \in DOMAIN fLog :
             getFileIndex(fLog[k].name) = (k - 1) \div fCfg.queueLimit
       /\ \A n \in DOMAIN fDisk : Cardinality(writesTo(n)) <= fCfg.queueLimit

\* C24: with append = false and size_limit = L > 0, every file is at most L
\* plus the size of the last message written to it when it is closed.
SizeBound ==
    (~fCfg.append /\ fCfg.sizeLimit > 0)
    => \A i \in DOMAIN fClosedFiles :
          fClosedFiles[i].size <= fCfg.sizeLimit + fClosedFiles[i].last

\* C25: until Close is called IsClosed() is false and the periodic task has
\* not stopped.
PeriodicFlush ==
    ~fCloseCalled => (~fOut.closed /\ fTimer # "stopped")

placesOf(k) ==
    {<<n, i>> \in UNION {{n} \X DOMAIN fDisk[n] : n \in DOMAIN fDisk} :
        fDisk[n][i] = k}

\* C26: after Close every payload written is in the files exactly once, in
\* the file its Write went to, and the payloads of a file are in the order
\* of their Writes.
RoundTrip ==
    fCloseCalled
    => /\ \A k \in DOMAIN fLog :
             /\ Cardinality(placesOf(k)) = 1
             /\ \E i \in DOMAIN fDisk[fLog[k].name] : fDisk[fLog[k].name][i] = k
       /\ \A n \in DOMAIN fDisk : increasing(fDisk[n])

\* The path the template stands for at a Write: the seconds of the clock,
\* the kind and the UUID of the payload.
pathAt(k) ==
    resolve(fCfg.pathTemplate,
            [currentID |-> fLog[k].uuid, payloadType |-> <<fLog[k].kind>>],
            fLog[k].now)

\* C27: every Write goes to the file its template resolves to for that
\* payload (time, %t kind, %r UUID); payloads with different UUIDs under a %r
\* template go to different files; a Write whose resolved path is that of
\* the Write before stays in the same file (no limit being set); and the
\* file left behind by a change of name has been closed.
TemplateRotation ==
    /\ \A k \in DOMAIN fLog :
          IF fCfg.append
          THEN fLog[k].name = pathAt(k)
          ELSE Ext(fLog[k].name) = Ext(pathAt(k)) /\ stem(fLog[k].name) = stem(pathAt(k))
    /\ \A j, k \in DOMAIN fLog :
          (Contains(fCfg.pathTemplate, pctR) /\ fLog[j].uuid # fLog[k].uuid)
          => fLog[j].name # fLog[k].name
    /\ \A k \in DOMAIN fLog :
          (k > 1 /\ pathAt(k) = pathAt(k - 1)
              /\ (fCfg.append \/ (fCfg.queueLimit = 0 /\ fCfg.sizeLimit = 0)))
          => fLog[k].name = fLog[k - 1].name
    /\ \A k \in DOMAIN fLog :
          (k > 1 /\ fLog[k].name # fLog[k - 1].name)
          => \E i \in DOMAIN fClosedFiles : fClosedFiles[i].name = fLog[k - 1].name

\* C37: with append = false, a sink created while siblings with the indexes
\* 0 .. m exist writes its first payload to the index m + 1, and no file
\* that existed when the sink was created is opened by it: the file is as
\* it was.
RestartSafety ==
    (~fCfg.append /\ fOld # <<>>)
    => /\ fLog # <<>> => getFileIndex(fLog[1].name) = Cardinality(DOMAIN fOld)
       /\ \A n \in DOMAIN fOld : fDisk[n] = fOld[n]

\* C38: with append = false, size_limit = L > 0 and a constant template, a
\* Write leaves the open file for another one only when the size of the
\* open file, as flushed, has reached L.
SizeRotationOncePerCrossing ==
    [][(Len(fLog') > Len(fLog) /\ ~fCfg.append /\ fCfg.sizeLimit > 0
            /\ constantTemplate /\ fOut.open /\ fOut'.file # fOut.file)
          => (sizeOf(fDisk[fOut.file], fLog) >= fCfg.sizeLimit)]_vars

RECURSIVE bytesWritten(_)
bytesWritten(k) == IF k = 0 THEN 0 ELSE wireSize(fLog[k].size) + bytesWritten(k - 1)

\* C28: with output_file_max_size = M > 0 a Write returns the error exactly
\* when it takes the bytes written by the sink past M.
HardCap ==
    fCfg.outputFileMaxSize > 0
    => \A k \in DOMAIN fLog :
          fLog[k].err <=> (bytesWritten(k) > fCfg.outputFileMaxSize)

(***************************************************************************)
(*                  Buffer-size parser (src/settings.go)                   *)
(*                                                                         *)
(* A size is a string of bytes.  A number of bytes n * 2^shift is kept as  *)
(* [n, shift], a zero as [0, 0]: 2^40 does not fit the integers of the     *)
(* checker.  The strings explored are too short for a value beyond int64.  *)
(***************************************************************************)
lower(c) == IF c >= 65 /\ c <= 90 THEN c + 32 ELSE c

\* empt: ^[\n\t\r 0.\f\a]*$
empt(s) == \A i \in DOMAIN s : s[i] \in {10, 9, 13, 32, 48, 46, 12, 7}

\* (?i)[\da-f_]+
digitClass(s) ==
    /\ s # <<>>
    /\ \A i \in DOMAIN s :
          isDigit(s[i]) \/ (lower(s[i]) >= 97 /\ lower(s[i]) <= 102) \/ s[i] = 95

\* (?i)(?:0b|0x|0o), the letters b, o, x
hasBasePrefix(s) == Len(s) >= 2 /\ s[1] = 48 /\ lower(s[2]) \in {98, 111, 120}

\* rB: (?i)^(?:0b|0x|0o)?[\da-f_]+$
rB(s) ==
    \/ digitClass(s)
    \/ hasBasePrefix(s) /\ digitClass(SubSeq(s, 3, Len(s)))

\* rKB, rMB, rGB, rTB: rB followed by the letter k, m, g or t and a b
rUnit(s, letter) ==
    /\ Len(s) >= 2
    /\ lower(s[Len(s) - 1]) = letter
    /\ lower(s[Len(s)]) = 98
    /\ rB(SubSeq(s, 1, Len(s) - 2))

\* strconv.ParseUint, base 0: the base a leading 0, 0b, 0o or 0x selects
baseOf(s) ==
    IF s[1] # 48 THEN 10
    ELSE IF Len(s) >= 3 /\ lower(s[2]) = 98 THEN 2
    ELSE IF Len(s) >= 3 /\ lower(s[2]) = 120 THEN 16
    ELSE 8

\* ... and the position of the first digit after the prefix
digitsFrom(s) ==
    IF s[1] # 48 THEN 1
    ELSE IF Len(s) >= 3 /\ lower(s[2]) \in {98, 111, 120} THEN 3
    ELSE 2

\* the value of a digit or letter; 36 for any other byte
digitOf(c) ==
    IF isDigit(c) THEN c - 48
    ELSE IF lower(c) >= 97 /\ lower(c) <= 122 THEN lower(c) - 97 + 10
    ELSE 36

\* the loop of ParseUint from position i with n read so far: underscores
\* are skipped, a byte that is no digit of the base is a syntax error (-1)
RECURSIVE readDigits(_, _, _, _)
readDigits(s, i, base, n) ==
    IF i > Len(s) THEN n
    ELSE IF s[i] = 95 THEN readDigits(s, i + 1, base, n)
    ELSE IF digitOf(s[i]) >= base THEN 0 - 1
    ELSE readDigits(s, i + 1, base, n * base + digitOf(s[i]))

\* strconv.underscoreOK from position i: saw is "0" after a digit or the
\* base prefix, "_" after an underscore, "!" after any other byte, "^" at
\* the start
RECURSIVE underscoreScan(_, _, _, _)
underscoreScan(s, i, hex, saw) ==
    IF i > Len(s) THEN saw # "_"
    ELSE IF isDigit(s[i]) \/ (hex /\ lower(s[i]) >= 97 /\ lower(s[i]) <= 102)
         THEN underscoreScan(s, i + 1, hex, "0")
    ELSE IF s[i] = 95
         THEN saw = "0" /\ underscoreScan(s, i + 1, hex, "_")
    ELSE saw # "_" /\ underscoreScan(s, i + 1, hex, "!")

underscoreOK(s) ==
    IF hasBasePrefix(s)
    THEN underscoreScan(s, 3, lower(s[2]) = 120, "0")
    ELSE underscoreScan(s, 1, FALSE, "^")

\* strconv.ParseInt(s, 0, 64) for the strings the regular expressions let
\* through (no sign): [n, err], n = 0 on a syntax error
ParseInt(s) ==
    IF s = <<>> THEN [n |-> 0, err |-> TRUE]
    ELSE IF readDigits(s, digitsFrom(s), baseOf(s), 0) < 0 \/ ~underscoreOK(s)
         THEN [n |-> 0, err |-> TRUE]
    ELSE [n |-> readDigits(s, digitsFrom(s), baseOf(s), 0), err |-> FALSE]

\* buffer *= KB, MB, GB or TB
timesUnit(parsed, shift) ==
    [n |-> parsed.n, shift |-> IF parsed.n = 0 THEN 0 ELSE shift,
     err |-> parsed.err]

\* buffer, err = strconv.ParseInt(size[:lmt], 0, 64); buffer *= unit.  The
\* slice panics when lmt is outside 0 .. len(size); the deferred recover
\* turns the panic into err, and buffer is still 0.
parseUnit(size, lmt, shift) ==
    IF lmt < 0 \/ lmt > Len(size) THEN [n |-> 0, shift |-> 0, err |-> TRUE]
    ELSE timesUnit(ParseInt(SubSeq(size, 1, lmt)), shift)

\* the switch of bufferParser
parseSwitch(size, lmt) ==
    IF rB(size) THEN timesUnit(ParseInt(size), 0)
    ELSE IF rUnit(size, 107) THEN parseUnit(size, lmt, 10)
    ELSE IF rUnit(size, 109) THEN parseUnit(size, lmt, 20)
    ELSE IF rUnit(size, 103) THEN parseUnit(size, lmt, 30)
    ELSE IF rUnit(size, 116) THEN parseUnit(size, lmt, 40)
    ELSE [n |-> 0, shift |-> 0, err |-> TRUE]

\* bufferParser: lmt is taken from the size as given, before an empty size
\* is replaced by rpl
bufferParser(size, rpl) ==
    parseSwitch(IF empt(size) THEN rpl ELSE size, Len(size) - 2)

\* The bytes of the sizes explored: space, 0, 1, 3, _, b, m, x
BufferBytes == {32, 48, 49, 51, 95, 98, 109, 120}

RECURSIVE sizesUpTo(_)
sizesUpTo(n) ==
    IF n = 0 THEN {<<>>}
    ELSE LET shorter == sizesUpTo(n - 1)
         IN  shorter \cup {Append(p, b) : p \in shorter, b \in BufferBytes}

\* The replacements: "0" (the test), "5mb", "32MB" and "1TB" (the settings)
Replacements ==
    {<<48>>, <<53, 109, 98>>, <<51, 50, 77, 66>>, <<49, 84, 66>>}

ParserIdle ==
    /\ bpSize = <<>>
    /\ bpRpl = <<>>
    /\ bpResult = <<>>

ParserInit ==
    /\ bpSize \in sizesUpTo(MaxSizeLen)
    /\ bpRpl \in Replacements
    /\ bpResult = <<>>

\* One call of bufferParser.
BufferParse ==
    /\ bpResult = <<>>
    /\ bpResult' = <<bufferParser(bpSize, bpRpl)>>
    /\ UNCHANGED <<bpSize, bpRpl, notParser>>

ParserNext == BufferParse

\* The unit the last two bytes of a size name: the shift, 0 without a unit
unitShift(s) ==
    IF Len(s) < 2 \/ lower(s[Len(s)]) # 98 THEN 0
    ELSE IF lower(s[Len(s) - 1]) = 107 THEN 10
    ELSE IF lower(s[Len(s) - 1]) = 109 THEN 20
    ELSE IF lower(s[Len(s) - 1]) = 103 THEN 30
    ELSE IF lower(s[Len(s) - 1]) = 116 THEN 40
    ELSE 0

\* What a size string stands for: its number, in the base of its prefix,
\* times its unit.
sizeValue(s) ==
    IF unitShift(s) = 0 THEN timesUnit(ParseInt(s), 0)
    ELSE timesUnit(ParseInt(SubSeq(s, 1, Len(s) - 2)), unitShift(s))

\* An empty or whitespace-only size
blank(s) == \A i \in DOMAIN s : s[i] \in {9, 10, 12, 13, 32}

\* C31: bufferParser of an empty or whitespace-only size returns the value
\* of the replacement, without error; of any other size that is a number
\* and an optional unit it returns the number times the unit.
BufferParserValue ==
    bpResult # <<>>
    => /\ blank(bpSize) => bpResult[1] = sizeValue(bpRpl)
       /\ (~blank(bpSize) /\ ~sizeValue(bpSize).err)
             => bpResult[1] = sizeValue(bpSize)

(***************************************************************************)
(*                    Emitter start-up (src/emitter.go)                    *)
(*                                                                         *)
(* Start runs one copy task per reader (a single one with a middleware)    *)
(* and then polls the stop channel.  A close of a closed channel panics,   *)
(* and a panic in any goroutine ends the process; so does the return of    *)
(* Start, after which main returns.                                        *)
(***************************************************************************)
CopyTasks == 1 .. NumCopyTasks
Plugins == 1 .. NumPlugins

\* What CopyMulty returns: "eof" is return nil; "readError" is return err
\* with the named result err, which nothing has assigned; "writeError" is
\* return err with the error of the Write.
copyReturnAlways(cause) == "err"

copyReturn(cause) == IF cause = "writeError" THEN "err" ELSE "nil"

stTaskAt(pc, cause, ret, writes) ==
    [pc |-> pc, cause |-> cause, ret |-> ret, writes |-> writes]

StartIdle ==
    /\ stCfg = [tasks |-> {}, closers |-> {}, exitAfter |-> FALSE]
    /\ stTask = <<>>
    /\ stStop = "open"
    /\ stClosedBy = <<>>
    /\ stPanic = FALSE
    /\ stExit = "off"
    /\ stStart = "idle"
    /\ stFinal = 0
    /\ stClosed = {}

\* Start, up to its polling loop: the copy tasks are started.  main has
\* armed the exitAfter timer when Settings.exitAfter > 0.
StartInit ==
    /\ stCfg \in [tasks : {1 .. n : n \in CopyTasks}, closers : SUBSET Plugins,
                  exitAfter : BOOLEAN]
    /\ stTask = [t \in stCfg.tasks |-> stTaskAt("copy", "none", "none", 0)]
    /\ stStop = "open"
    /\ stClosedBy = <<>>
    /\ stPanic = FALSE
    /\ stExit = IF stCfg.exitAfter THEN "armed" ELSE "off"
    /\ stStart = "loop"
    /\ stFinal = 0
    /\ stClosed = {}

\* The process is alive: no panic, and Start has not returned.
stRunning == ~stPanic /\ stStart # "returned"

\* close(stop) by who: the channel is closed, or the close panics
stClose(who) ==
    /\ stClosedBy' = Append(stClosedBy, who)
    /\ stStop' = "closed"
    /\ stPanic' = (stStop = "closed")

\* A copy task forwards one payload to the writers.
StartCopy(t) ==
    /\ stRunning
    /\ stTask[t].pc = "copy"
    /\ stTask[t].writes < MaxStartWrites
    /\ stTask' = [stTask EXCEPT ![t].writes = @ + 1]
    /\ UNCHANGED <<stCfg, stStop, stClosedBy, stPanic, stExit, stStart, stFinal,
                   stClosed, notStart>>

\* CopyMulty returns in a copy task; with a nil error the goroutine ends.
StartCopyReturn(t, cause) ==
    /\ stRunning
    /\ stTask[t].pc = "copy"
    /\ stTask' = [stTask EXCEPT ![t] =
                    stTaskAt(IF copyReturn(cause) = "nil" THEN "done" ELSE "failed",
                             cause, copyReturn(cause), @.writes)]
    /\ UNCHANGED <<stCfg, stStop, stClosedBy, stPanic, stExit, stStart, stFinal,
                   stClosed, notStart>>

\* err != nil in a copy task: log.Println and close(stop)
StartCloseStop(t) ==
    /\ stRunning
    /\ stTask[t].pc = "failed"
    /\ stTask' = [stTask EXCEPT ![t].pc = "done"]
    /\ stClose(t)
    /\ UNCHANGED <<stCfg, stExit, stStart, stFinal, stClosed, notStart>>

\* main: the exitAfter timer fires, close(closeCh); 0 stands for the timer
StartExitAfter ==
    /\ stRunning
    /\ stExit = "armed"
    /\ stExit' = "fired"
    /\ stClose(0)
    /\ UNCHANGED <<stCfg, stTask, stStart, stFinal, stClosed, notStart>>

\* Start: case <-stop, finalize is called
StartSelect ==
    /\ stRunning
    /\ stStart = "loop"
    /\ stStop = "closed"
    /\ stStart' = "finalize"
    /\ stFinal' = 1
    /\ UNCHANGED <<stCfg, stTask, stStop, stClosedBy, stPanic, stExit, stClosed,
                   notStart>>

\* finalize: the next plugin of plugins.All, closed if it is an io.Closer
StartFinalize ==
    /\ stRunning
    /\ stStart = "finalize"
    /\ stFinal <= NumPlugins
    /\ stFinal' = stFinal + 1
    /\ stClosed' = IF stFinal \in stCfg.closers THEN stClosed \cup {stFinal}
                   ELSE stClosed
    /\ UNCHANGED <<stCfg, stTask, stStop, stClosedBy, stPanic, stExit, stStart,
                   notStart>>

\* Start: return, after finalize
StartReturn ==
    /\ stRunning
    /\ stStart = "finalize"
    /\ stFinal > NumPlugins
    /\ stStart' = "returned"
    /\ UNCHANGED <<stCfg, stTask, stStop, stClosedBy, stPanic, stExit, stFinal,
                   stClosed, notStart>>

StartNext ==
    \/ \E t \in DOMAIN stTask : StartCopy(t)
    \/ \E t \in DOMAIN stTask, cause \in {"eof", "readError", "writeError"} :
          StartCopyReturn(t, cause)
    \/ \E t \in DOMAIN stTask : StartCloseStop(t)
    \/ StartExitAfter
    \/ StartSelect
    \/ StartFinalize
    \/ StartReturn

\* The goroutines are scheduled, and Start polls the stop channel every
\* 100ms.
StartFair ==
    /\ WF_vars(\E t \in DOMAIN stTask : StartCloseStop(t))
    /\ WF_vars(StartSelect)
    /\ WF_vars(StartFinalize)
    /\ WF_vars(StartReturn)

writeFailed == \E t \in DOMAIN stTask : stTask[t].cause = "writeError"

\* C32: a copy task whose Write failed has stopped forwarding and its
\* CopyMulty has returned the error; once the task has run its close the
\* stop channel is closed; Start returns only after it has closed every
\* plugin that is a Closer; and after a Write has failed Start does close
\* them and return.
ShutdownOnWriteError ==
    /\ [](\A t \in DOMAIN stTask :
            stTask[t].cause = "writeError"
            => /\ stTask[t].ret = "err"
               /\ stTask[t].pc \in {"failed", "done"}
               /\ stTask[t].pc = "done" => stStop = "closed")
    /\ [](stStart = "returned" => (stStop = "closed" /\ stClosed = stCfg.closers))
    /\ (writeFailed ~> (stStart = "returned" /\ stClosed = stCfg.closers))

\* C33: a copy task whose reader returned an error other than EOF ends as
\* on EOF, with a nil result; the step closes nothing and leaves the other
\* copy tasks as they are, and such a task never closes the stop channel.
ReadErrorReturnsNil ==
    /\ [](\A t \in DOMAIN stTask :
            stTask[t].cause \in {"eof", "readError"}
            => /\ stTask[t].ret = "nil"
               /\ stTask[t].pc = "done"
               /\ \A k \in DOMAIN stClosedBy : stClosedBy[k] # t)
    /\ [][\A t \in DOMAIN stTask :
            (stTask[t].pc = "copy" /\ stTask'[t].cause = "readError")
            => /\ stStop' = stStop
               /\ stClosedBy' = stClosedBy
               /\ stStart' = stStart
               /\ \A u \in DOMAIN stTask \ {t} : stTask'[u] = stTask[u]]_vars

\* A reader failed while the stop channel is open, and the other copy task
\* went on forwarding.
ReadErrorReturnsNilWitness ==
    /\ stStop = "open"
    /\ stStart = "loop"
    /\ \E t, u \in DOMAIN stTask :
          /\ stTask[t].cause = "readError"
          /\ stTask[u].pc = "copy"
          /\ stTask[u].writes > stTask[t].writes

\* C35: the stop channel is closed at most once, whatever copy tasks fail
\* and whether or not the exitAfter timer fires; no close panics.
StopClosedOnce ==
    /\ Len(stClosedBy) <= 1
    /\ ~stPanic

(***************************************************************************)
(*                            Specifications                               *)
(***************************************************************************)
InitTCP == TCPInit /\ HTTPIdle /\ EmitIdle /\ RawIdle /\ IndexIdle /\ ClientIdle /\ NamesIdle /\ FileIdle /\ ParserIdle /\ StartIdle
SpecTCP == InitTCP /\ [][TCPNext]_vars

InitHTTP == HTTPInit /\ TCPIdle /\ EmitIdle /\ RawIdle /\ IndexIdle /\ ClientIdle /\ NamesIdle /\ FileIdle /\ ParserIdle /\ StartIdle
SpecHTTP == InitHTTP /\ [][HTTPNext]_vars

InitEmit == EmitInit /\ TCPIdle /\ HTTPIdle /\ RawIdle /\ IndexIdle /\ ClientIdle /\ NamesIdle /\ FileIdle /\ ParserIdle /\ StartIdle
SpecEmit == InitEmit /\ [][EmitNext]_vars

InitIndex == IndexInit /\ TCPIdle /\ HTTPIdle /\ EmitIdle /\ RawIdle /\ ClientIdle /\ NamesIdle /\ FileIdle /\ ParserIdle /\ StartIdle
SpecIndex == InitIndex /\ [][IndexNext]_vars

InitRaw == RawInit /\ TCPIdle /\ HTTPIdle /\ EmitIdle /\ IndexIdle /\ ClientIdle /\ NamesIdle /\ FileIdle /\ ParserIdle /\ StartIdle
SpecRaw == InitRaw /\ [][RawNext]_vars

InitClient ==
    ClientInit /\ TCPIdle /\ HTTPIdle /\ EmitIdle /\ RawIdle /\ IndexIdle /\ NamesIdle /\ FileIdle /\ ParserIdle /\ StartIdle
SpecClient == InitClient /\ [][ClientNext]_vars

InitNames ==
    /\ NamesInit /\ TCPIdle /\ HTTPIdle /\ EmitIdle /\ RawIdle /\ IndexIdle
    /\ ClientIdle /\ FileIdle /\ ParserIdle /\ StartIdle
SpecNames == InitNames /\ [][NamesNext]_vars

InitFile ==
    /\ FileInit /\ TCPIdle /\ HTTPIdle /\ EmitIdle /\ RawIdle /\ IndexIdle
    /\ ClientIdle /\ NamesIdle /\ ParserIdle /\ StartIdle
SpecFile == InitFile /\ [][FileNext]_vars

InitParser ==
    /\ ParserInit /\ TCPIdle /\ HTTPIdle /\ EmitIdle /\ RawIdle /\ IndexIdle
    /\ ClientIdle /\ NamesIdle /\ FileIdle /\ StartIdle
SpecParser == InitParser /\ [][ParserNext]_vars

InitStart ==
    /\ StartInit /\ TCPIdle /\ HTTPIdle /\ EmitIdle /\ RawIdle /\ IndexIdle
    /\ ClientIdle /\ NamesIdle /\ FileIdle /\ ParserIdle
SpecStart == InitStart /\ [][StartNext]_vars

\* Start with its goroutines scheduled.
SpecStartLive == InitStart /\ [][StartNext]_vars /\ StartFair

\* The expiry ticker keeps ticking: once the packets are exhausted the expiry
\* step, the only one that sets rawExpired, is eventually taken.
RawTick == packetsChan = {} /\ ~rawExpired /\ rawExpired' = TRUE
SpecRawLive == InitRaw /\ [][RawNext]_vars /\ WF_rawExpired(RawTick)

====
